---- MODULE Spec2Model ----
(***************************************************************************)
(* Model of the real-time repetition-detection engine of periodic-gym:     *)
(* the usePoseAnalysis hook (smoothing buffer, hysteresis state machine,   *)
(* session aggregates, animation-frame loop) as driven by the coach page   *)
(* (exercise selection, session start/stop, camera).                       *)
(*                                                                         *)
(* Units: times are milliseconds; confidences are percentages (0.5 = 50);  *)
(* a RepData duration is kept in milliseconds (duration*1000); a smoothed  *)
(* angle, avgQuality and avgConfidence are exact fractions <<num, den>>.   *)
(* Strings that are matched by substring are sequences of one-character    *)
(* strings.                                                                *)
(***************************************************************************)
EXTENDS Integers, Naturals, Sequences, FiniteSets, TLC

(***************************************************************************)
(* Bounds of the model                                                     *)
(***************************************************************************)
\* performance.now() of the first state and the largest one explored
\* mantissa bits of the floating-point numbers of the model
MantissaBits == 10
StartClock == 50
MaxClock == 950
\* Date.now() - performance.now(): wall-clock time is far from 0
Epoch == 20000
\* accepted repetitions explored per exercise selection
MaxReps == 2

\* time between two readings of the clock by the frame callback: in the page
\* model, and in the model of one running session
Deltas == {0, 100}
SessionDeltas == {50, 10000}
\* primary joint angles a frame can show (degrees)
Angles == {0, 180}
\* <<min visibility of the joint's three points, mean visibility of the
\*   required landmarks>> of an evaluable frame
Visibilities == {<<100, 75>>, <<100, 100>>}
\* form-quality score of an evaluable frame, by its mean visibility
QualityOf(conf) == IF conf = 100 THEN 100 ELSE 75

(***************************************************************************)
(* Program constants                                                       *)
(***************************************************************************)
MIN_CONFIDENCE_THRESHOLD == 50
BUFFER_SIZE == 5
\* minimum interval between processed frames (ms)
FrameInterval == 33
\* debounce between accepted repetitions (ms)
DebounceMs == 500
\* valid repetition duration band (ms)
MinDurationMs == 300
MaxDurationMs == 10000

(***************************************************************************)
(* Strings                                                                 *)
(***************************************************************************)
UpperCase ==
  <<"A","B","C","D","E","F","G","H","I","J","K","L","M","N","O","P",
    "Q","R","S","T","U","V","W","X","Y","Z","Ã">>
LowerCase ==
  <<"a","b","c","d","e","f","g","h","i","j","k","l","m","n","o","p",
    "q","r","s","t","u","v","w","x","y","z","ã">>

toLowerCase(s) ==
  [i \in 1..Len(s) |->
     IF \E j \in 1..Len(UpperCase) : UpperCase[j] = s[i]
     THEN LowerCase[CHOOSE j \in 1..Len(UpperCase) : UpperCase[j] = s[i]]
     ELSE s[i]]

includes(s, k) ==
  \E i \in 1..(Len(s) - Len(k) + 1) : SubSeq(s, i, i + Len(k) - 1) = k

NoExercise == << >>
RemadaCurvada == <<"R","e","m","a","d","a"," ","C","u","r","v","a","d","a">>
Agachamento == <<"A","g","a","c","h","a","m","e","n","t","o">>
Flexao == <<"F","l","e","x","ã","o">>

\* the options of the exercise Select
exercises == {RemadaCurvada, Agachamento, Flexao}

\* other names the hook and the dispatcher can be given as selectedExercise
AgachamentoUpper == <<"A","G","A","C","H","A","M","E","N","T","O">>
Squat == <<"S","q","u","a","t">>
BarbellRow == <<"B","a","r","b","e","l","l"," ","R","o","w">>
PushUp == <<"P","u","s","h","-","u","p">>
Supino == <<"S","u","p","i","n","o">>
Yoga == <<"Y","o","g","a">>

ExerciseNames ==
  exercises \cup {AgachamentoUpper, Squat, BarbellRow, PushUp, Supino, Yoga}

(***************************************************************************)
(* Exact fractions <<num, den>>, den > 0                                   *)
(***************************************************************************)
FracLt(f, k) == f[1] < k * f[2]
FracGt(f, k) == f[1] > k * f[2]
FracEq(f, g) == f[1] * g[2] = g[1] * f[2]

Min(S) == CHOOSE x \in S : \A y \in S : x <= y

(***************************************************************************)
(* Per-exercise thresholds, in the insertion order of the object literal   *)
(***************************************************************************)
thresholds ==
  << [key |-> <<"r","e","m","a","d","a">>,
      up |-> 150, down |-> 80, hysteresis |-> 10],
     [key |-> <<"a","g","a","c","h","a","m","e","n","t","o">>,
      up |-> 150, down |-> 100, hysteresis |-> 10],
     [key |-> <<"f","l","e","x","ã","o">>,
      up |-> 150, down |-> 90, hysteresis |-> 8],
     [key |-> <<"l","e","v","a","n","t","a","m","e","n","t","o"," ","t","e","r","r","a">>,
      up |-> 160, down |-> 120, hysteresis |-> 10],
     [key |-> <<"s","u","p","i","n","o">>,
      up |-> 160, down |-> 80, hysteresis |-> 8],
     [key |-> <<"d","e","f","a","u","l","t">>,
      up |-> 150, down |-> 90, hysteresis |-> 10] >>

getThresholds(exercise) ==
  LET exerciseLower == toLowerCase(exercise)
      hits == {i \in 1..Len(thresholds) : includes(exerciseLower, thresholds[i].key)}
  IN  IF hits # {} THEN thresholds[Min(hits)] ELSE thresholds[Len(thresholds)]

\* getThresholds() of every exercise name of the model
thresholdsOf == [exercise \in ExerciseNames \cup {NoExercise} |-> getThresholds(exercise)]

(***************************************************************************)
(* Analyzer dispatch.  A Pose is what the landmarker saw in one frame, as  *)
(* far as the selected analyzer is concerned:                              *)
(*   [kind |-> "none"]      no person detected (or detection threw)        *)
(*   [kind |-> "hidden"]    a required landmark absent / visibility < 0.5  *)
(*   [kind |-> "visible", angle, angleConf, conf, quality]                 *)
(***************************************************************************)
InvalidAnalysis ==
  [isValid |-> FALSE, quality |-> 0, confidence |-> 0, metrics |-> << >>]

\* analyzeBackRow and analyzePushUp report the elbow, analyzeSquat the knee
Analyzer(joint, pose) ==
  IF pose.kind # "visible"
  THEN InvalidAnalysis
  ELSE [isValid |-> TRUE, quality |-> pose.quality, confidence |-> pose.conf,
        metrics |-> [name \in {joint} |-> [angle |-> pose.angle,
                                           confidence |-> pose.angleConf]]]

\* variant: a name without a keyword is analysed as a squat
analyzerFor_DefaultSquat(exercise) ==
  LET exerciseLower == toLowerCase(exercise)
  IN  IF includes(exerciseLower, <<"r","e","m","a","d","a">>)
         \/ includes(exerciseLower, <<"r","o","w">>)
      THEN "analyzeBackRow"
      ELSE IF includes(exerciseLower, <<"f","l","e","x","ã","o">>)
              \/ includes(exerciseLower, <<"p","u","s","h">>)
      THEN "analyzePushUp"
      ELSE "analyzeSquat"

\* the analyzer analyzeExercise dispatches to
analyzerFor(exercise) ==
  LET exerciseLower == toLowerCase(exercise)
  IN  IF includes(exerciseLower, <<"r","e","m","a","d","a">>)
         \/ includes(exerciseLower, <<"r","o","w">>)
      THEN "analyzeBackRow"
      ELSE IF includes(exerciseLower, <<"a","g","a","c","h","a","m","e","n","t","o">>)
              \/ includes(exerciseLower, <<"s","q","u","a","t">>)
      THEN "analyzeSquat"
      ELSE IF includes(exerciseLower, <<"f","l","e","x","ã","o">>)
              \/ includes(exerciseLower, <<"p","u","s","h">>)
              \/ includes(exerciseLower, <<"p","u","s","h","u","p">>)
      THEN "analyzePushUp"
      ELSE "unrecognized"

analyzerOf == [exercise \in ExerciseNames \cup {NoExercise} |-> analyzerFor(exercise)]

analyzeExercise(exercise, pose) ==
  CASE analyzerOf[exercise] = "analyzeBackRow" -> Analyzer("elbow", pose)
    [] analyzerOf[exercise] = "analyzeSquat" -> Analyzer("knee", pose)
    [] analyzerOf[exercise] = "analyzePushUp" -> Analyzer("elbow", pose)
    [] OTHER -> InvalidAnalysis

(***************************************************************************)
(* The analyzers on a landmark frame.  A frame is                          *)
(*   [points |-> the landmarks by index, each [present, hasVisibility,     *)
(*               visibility (percent)],                                    *)
(*    measure |-> what the vector geometry yields for the coordinates:     *)
(*               angles in degrees, distances in thousandths of the image, *)
(*               kneeForwardRatio in hundredths]                           *)
(***************************************************************************)
LandmarkIndices == {11, 12, 13, 15, 23, 24, 25, 26, 27, 28}

\* variant: a landmark without a visibility value counts as hidden
Visibility_MissingIsHidden(point) ==
  IF point.hasVisibility THEN point.visibility ELSE 0

\* point.visibility ?? 1
Visibility(point) == IF point.hasVisibility THEN point.visibility ELSE 100

isVisible(point) == Visibility(point) >= 50

\* variant: a landmark only has to be present
validateLandmarks_PresenceOnly(points, indices) ==
  \A i \in indices : points[i].present

validateLandmarks(points, indices) ==
  \A i \in indices : points[i].present /\ isVisible(points[i])

RECURSIVE SumVisibility(_, _)
SumVisibility(points, indices) ==
  IF indices = {} THEN 0
  ELSE LET i == CHOOSE j \in indices : TRUE
       IN  Visibility(points[i]) + SumVisibility(points, indices \ {i})

\* variant: the sum of the visibilities is not divided by their number
getAverageConfidence_NoDivision(points, indices) ==
  LET validPoints == {i \in indices : points[i].present}
  IN  IF validPoints = {} THEN <<0, 1>>
      ELSE <<SumVisibility(points, validPoints), 1>>

\* the mean visibility, a fraction (percent)
getAverageConfidence(points, indices) ==
  LET validPoints == {i \in indices : points[i].present}
  IN  IF validPoints = {} THEN <<0, 1>>
      ELSE <<SumVisibility(points, validPoints), Cardinality(validPoints)>>

\* variant: the confidence is the mean of the three visibilities
calculateWeightedAngle_Mean(angle, a, b, c) ==
  [angle |-> angle,
   confidence |-> (Visibility(a) + Visibility(b) + Visibility(c)) \div 3]

\* angle is calculateAngle(a, b, c) of the frame's measure
calculateWeightedAngle(angle, a, b, c) ==
  [angle |-> angle,
   confidence |-> Min({Visibility(a), Visibility(b), Visibility(c)})]

Abs(x) == IF x < 0 THEN -x ELSE x

(***************************************************************************)
(* Vector geometry.  A position is [x, y, hasZ, z] with integer            *)
(* coordinates.  A length is represented by its square, a fraction, and an *)
(* angle by its cosine: [cosSign, cosSquared] stands for                   *)
(* acos(cosSign * sqrt(cosSquared)) in degrees, so that 0 degrees is       *)
(* [cosSign |-> 1, cosSquared |-> <<1, 1>>].                               *)
(***************************************************************************)
\* variant: a missing z is read as 1
toVector3D_MissingZIsOne(p) == [x |-> p.x, y |-> p.y, z |-> IF p.hasZ THEN p.z ELSE 1]

\* { x: p.x, y: p.y, z: p.z ?? 0 }
toVector3D(p) == [x |-> p.x, y |-> p.y, z |-> IF p.hasZ THEN p.z ELSE 0]

subtractVectors(a, b) == [x |-> a.x - b.x, y |-> a.y - b.y, z |-> a.z - b.z]

dotProduct(a, b) == a.x * b.x + a.y * b.y + a.z * b.z

\* the square of magnitude(v)
SquaredMagnitude(v) == v.x * v.x + v.y * v.y + v.z * v.z

crossProduct(a, b) ==
  [x |-> a.y * b.z - a.z * b.y,
   y |-> a.z * b.x - a.x * b.z,
   z |-> a.x * b.y - a.y * b.x]

Sign(x) == IF x > 0 THEN 1 ELSE IF x < 0 THEN -1 ELSE 0

\* the number 0 as an angle: Math.acos(1)
ZeroDegrees == [cosSign |-> 1, cosSquared |-> <<1, 1>>]

\* the angle at vertex b; magnitude(v) === 0 exactly when its square is 0
calculateAngle(a, b, c) ==
  LET ba == subtractVectors(toVector3D(a), toVector3D(b))
      bc == subtractVectors(toVector3D(c), toVector3D(b))
      dot == dotProduct(ba, bc)
  IN  IF SquaredMagnitude(ba) = 0 \/ SquaredMagnitude(bc) = 0
      THEN ZeroDegrees
      ELSE [cosSign |-> Sign(dot),
            cosSquared |-> <<dot * dot, SquaredMagnitude(ba) * SquaredMagnitude(bc)>>]

\* the square of calculateDistance(a, b)
calculateDistance(a, b) ==
  LET dx == a.x - b.x
      dy == a.y - b.y
      dz == (IF a.hasZ THEN a.z ELSE 0) - (IF b.hasZ THEN b.z ELSE 0)
  IN  <<dx * dx + dy * dy + dz * dz, 1>>

\* the square of the distance from p to the line through a and b
pointToLineDistance(p, a, b) ==
  LET ab == subtractVectors(toVector3D(b), toVector3D(a))
      ap == subtractVectors(toVector3D(p), toVector3D(a))
      cross == crossProduct(ab, ap)
  IN  IF SquaredMagnitude(ab) = 0
      THEN <<SquaredMagnitude(ap), 1>>
      ELSE <<SquaredMagnitude(cross), SquaredMagnitude(ab)>>

\* Math.round of x * 0.5 for an integer x >= 0 (halves round up)
RoundHalf(x) == (x + 1) \div 2

\* the record returned when validateLandmarks fails
Positioning(message) ==
  [feedback |-> <<message>>, metrics |-> << >>, phase |-> "rest",
   isValid |-> FALSE, quality |-> 0, confidence |-> <<0, 1>>]

\* one check of an analyzer: the feedback it pushes and what it takes off
Check(message, penalty) == [feedback |-> <<message>>, penalty |-> penalty]
Silent == [feedback |-> << >>, penalty |-> 0]

RECURSIVE Feedback(_)
Feedback(checks) ==
  IF checks = << >> THEN << >> ELSE Head(checks).feedback \o Feedback(Tail(checks))

\* variant: only the largest penalty is taken off
Penalties_Largest(checks) ==
  IF checks = << >> THEN 0
  ELSE CHOOSE p \in {checks[i].penalty : i \in DOMAIN checks} :
         \A i \in DOMAIN checks : checks[i].penalty <= p

RECURSIVE Penalties(_)
Penalties(checks) ==
  IF checks = << >> THEN 0 ELSE Head(checks).penalty + Penalties(Tail(checks))

\* let quality = 100; quality -= ...; Math.max(0, Math.round(quality))
Quality(checks) ==
  IF 100 - Penalties(checks) < 0 THEN 0 ELSE 100 - Penalties(checks)

\* variant: an angle of exactly 150 degrees is above the high threshold
Phase_Inclusive(angle, low, above, between) ==
  IF angle >= 150 THEN above
  ELSE IF angle < low THEN "concentric"
  ELSE between

\* the phase of a frame from the primary angle: if (angle > 150) ... else if
\* (angle < low) ... else ...
Phase(angle, low, above, between) ==
  IF angle > 150 THEN above
  ELSE IF angle < low THEN "concentric"
  ELSE between

analyzeBackRow(frame) ==
  LET requiredPoints == {11, 13, 15, 23, 27, 12}
      p == frame.points
      m == frame.measure
  IN  IF ~validateLandmarks(p, requiredPoints)
      THEN Positioning("Posicione-se de lado para a câmera")
      ELSE
        LET elbowResult == calculateWeightedAngle(m.elbowAngle, p[11], p[13], p[15])
            torsoAngle == m.bodyAngle
            torso == IF torsoAngle > 160
                     THEN Check("Incline o tronco para frente (~45°)", 15)
                     ELSE IF torsoAngle < 100
                     THEN Check("Não incline demais - proteja a lombar", 20)
                     ELSE IF torsoAngle >= 120 /\ torsoAngle <= 150
                     THEN Check("Inclinação do tronco perfeita", 0)
                     ELSE Silent
            shoulders == IF m.shoulderYDist > 50 \/ m.shoulderZDist > 100
                         THEN Check("Mantenha os ombros alinhados - sem rotação", 15)
                         ELSE Silent
            pull == IF elbowResult.angle > 160
                    THEN Check("Braço estendido - inicie a puxada", 0)
                    ELSE IF elbowResult.angle < 60
                    THEN Check("Puxada muito curta - estenda mais o braço", 10)
                    ELSE Silent
            proximity == IF m.elbowTorsoDistance > 150
                         THEN Check("Mantenha o cotovelo próximo ao corpo", 10)
                         ELSE Silent
            checks == <<torso, shoulders, pull, proximity>>
        IN  [feedback |-> Feedback(checks),
             metrics |-> [elbowAngle |-> elbowResult.angle,
                          elbowConfidence |-> elbowResult.confidence,
                          torsoAngle |-> torsoAngle,
                          shoulderAlignment |-> m.shoulderYDist,
                          shoulderRotation |-> m.shoulderZDist,
                          elbowProximity |-> m.elbowTorsoDistance],
             phase |-> Phase(elbowResult.angle, 90, "eccentric", "isometric"),
             isValid |-> TRUE,
             quality |-> Quality(checks),
             confidence |-> getAverageConfidence(p, requiredPoints)]

analyzeSquat(frame) ==
  LET requiredPoints == {11, 23, 24, 25, 26, 27, 28}
      p == frame.points
      m == frame.measure
  IN  IF ~validateLandmarks(p, requiredPoints)
      THEN Positioning("Posicione-se de frente ou de costas para a câmera")
      ELSE
        LET kneeResult == calculateWeightedAngle(m.kneeAngle, p[23], p[25], p[27])
            depth == IF kneeResult.angle > 160
                     THEN Check("Posição inicial - desça controladamente", 0)
                     ELSE IF kneeResult.angle < 90
                     THEN Check("Profundidade completa! Excelente", 0)
                     ELSE IF kneeResult.angle < 120
                     THEN Check("Boa profundidade - paralelo atingido", 0)
                     ELSE IF kneeResult.angle < 140
                     THEN Check("Desça um pouco mais para profundidade ideal", 10)
                     ELSE Silent
            back == IF m.torsoAngle < 140
                    THEN Check("Mantenha o peito erguido - costas muito inclinadas", 15)
                    ELSE IF m.torsoAngle > 180
                    THEN Check("Não incline para trás demais", 10)
                    ELSE Silent
            knee == IF Abs(m.kneeForwardRatio) > 30
                    THEN Check("Joelho ultrapassando a ponta do pé", 15)
                    ELSE Silent
            asymmetry == Abs(kneeResult.angle - m.kneeAngleR)
            symmetry == IF asymmetry > 15
                        THEN Check("Distribua o peso uniformemente entre as pernas",
                                   Min({20, RoundHalf(asymmetry)}))
                        ELSE Silent
            hips == IF m.lateralShift > 80
                    THEN Check("Mantenha o quadril centralizado", 10)
                    ELSE Silent
            checks == <<depth, back, knee, symmetry, hips>>
        IN  [feedback |-> Feedback(checks),
             metrics |-> [kneeAngle |-> kneeResult.angle,
                          kneeConfidence |-> kneeResult.confidence,
                          torsoAngle |-> m.torsoAngle,
                          kneeForwardRatio |-> m.kneeForwardRatio,
                          legAsymmetry |-> asymmetry,
                          lateralShift |-> m.lateralShift],
             phase |-> Phase(kneeResult.angle, 110, "rest", "eccentric"),
             isValid |-> TRUE,
             quality |-> Quality(checks),
             confidence |-> getAverageConfidence(p, requiredPoints)]

analyzePushUp(frame) ==
  LET requiredPoints == {11, 13, 15, 23, 25, 27}
      p == frame.points
      m == frame.measure
  IN  IF ~validateLandmarks(p, requiredPoints)
      THEN Positioning("Posicione-se de lado para a câmera")
      ELSE
        LET elbowResult == calculateWeightedAngle(m.elbowAngle, p[11], p[13], p[15])
            depth == IF elbowResult.angle > 160
                     THEN Check("Posição inicial - desça controladamente", 0)
                     ELSE IF elbowResult.angle < 90
                     THEN Check("Profundidade completa! Ótima execução", 0)
                     ELSE IF elbowResult.angle < 120
                     THEN Check("Boa profundidade - continue", 0)
                     ELSE Check("Desça mais para aproveitar o movimento completo", 15)
            body == IF m.hipLineDeviation > 50 \/ m.bodyAngle < 160
                    THEN Check("Quadril muito alto - mantenha o corpo reto", 20)
                    ELSE IF m.bodyAngle > 190
                    THEN Check("Quadril caído - ative o core", 20)
                    ELSE Check("Alinhamento corporal perfeito", 0)
            flare == IF m.elbowFlare > 150
                     THEN Check("Cotovelos muito abertos - aproxime do corpo", 10)
                     ELSE Silent
            checks == <<depth, body, flare>>
        IN  [feedback |-> Feedback(checks),
             metrics |-> [elbowAngle |-> elbowResult.angle,
                          elbowConfidence |-> elbowResult.confidence,
                          hipDeviation |-> m.hipLineDeviation,
                          bodyAlignment |-> m.bodyAngle,
                          elbowFlare |-> m.elbowFlare],
             phase |-> Phase(elbowResult.angle, 110, "rest", "eccentric"),
             isValid |-> TRUE,
             quality |-> Quality(checks),
             confidence |-> getAverageConfidence(p, requiredPoints)]

\* analyzeExercise(exercise, landmarks) on a landmark frame
analyzeExerciseLandmarks(exercise, frame) ==
  CASE analyzerOf[exercise] = "analyzeBackRow" -> analyzeBackRow(frame)
    [] analyzerOf[exercise] = "analyzeSquat" -> analyzeSquat(frame)
    [] analyzerOf[exercise] = "analyzePushUp" -> analyzePushUp(frame)
    [] OTHER ->
         [feedback |-> <<"Exercício não reconhecido">>, metrics |-> << >>,
          phase |-> "rest", isValid |-> FALSE, quality |-> 0,
          confidence |-> <<0, 1>>]

\* what analyze and detectRep read of the record: validity, quality, the
\* confidence (whole percent, which decides the comparison with the floor)
\* and the angle and confidence of the joints
AsAnalysis(record) ==
  [isValid |-> record.isValid,
   quality |-> record.quality,
   confidence |-> record.confidence[1] \div record.confidence[2],
   metrics |->
     [joint \in {j \in {"elbow", "knee"} :
                   \/ j = "elbow" /\ "elbowAngle" \in DOMAIN record.metrics
                   \/ j = "knee" /\ "kneeAngle" \in DOMAIN record.metrics} |->
        IF joint = "elbow"
        THEN [angle |-> record.metrics.elbowAngle,
              confidence |-> record.metrics.elbowConfidence]
        ELSE [angle |-> record.metrics.kneeAngle,
              confidence |-> record.metrics.kneeConfidence]]]

\* metrics.<joint>Angle ?? 180 and metrics.<joint>Confidence ?? fallback
MetricAngle(metrics, joint) ==
  IF joint \in DOMAIN metrics THEN metrics[joint].angle ELSE 180
MetricConfidence(metrics, joint, fallback) ==
  IF joint \in DOMAIN metrics THEN metrics[joint].confidence ELSE fallback

\* the branch getPrimaryAngle takes
primaryJointFor(exercise) ==
  LET exerciseLower == toLowerCase(exercise)
  IN  IF includes(exerciseLower, <<"r","e","m","a","d","a">>)
         \/ includes(exerciseLower, <<"f","l","e","x","ã","o">>)
         \/ includes(exerciseLower, <<"s","u","p","i","n","o">>)
      THEN "elbow"
      ELSE IF includes(exerciseLower, <<"a","g","a","c","h","a","m","e","n","t","o">>)
      THEN "knee"
      ELSE IF includes(exerciseLower, <<"t","e","r","r","a">>)
      THEN "hip"
      ELSE "any"

primaryJointOf == [exercise \in ExerciseNames \cup {NoExercise} |-> primaryJointFor(exercise)]

getPrimaryAngle(exercise, analysis) ==
  LET metrics == analysis.metrics
  IN  CASE primaryJointOf[exercise] = "elbow" ->
             [angle |-> MetricAngle(metrics, "elbow"),
              confidence |-> MetricConfidence(metrics, "elbow", analysis.confidence)]
        [] primaryJointOf[exercise] = "knee" ->
             [angle |-> MetricAngle(metrics, "knee"),
              confidence |-> MetricConfidence(metrics, "knee", analysis.confidence)]
        [] primaryJointOf[exercise] = "hip" ->
             [angle |-> MetricAngle(metrics, "hip"), confidence |-> analysis.confidence]
        [] OTHER ->
             [angle |-> IF "elbow" \in DOMAIN metrics
                        THEN metrics["elbow"].angle
                        ELSE MetricAngle(metrics, "knee"),
              confidence |-> analysis.confidence]

(***************************************************************************)
(* Temporal smoother                                                       *)
(***************************************************************************)
EmptyBuffer == [values |-> << >>, weights |-> << >>]

\* variant: on overflow the pair just pushed is dropped instead of the oldest
PushBuffer_EvictsNewest(buffer, value, confidence) ==
  LET v == Append(buffer.values, value)
      w == Append(buffer.weights, confidence)
  IN  IF Len(v) > BUFFER_SIZE
      THEN buffer
      ELSE [values |-> v, weights |-> w]

\* push, then shift when longer than BUFFER_SIZE
PushBuffer(buffer, value, confidence) ==
  LET v == Append(buffer.values, value)
      w == Append(buffer.weights, confidence)
  IN  IF Len(v) > BUFFER_SIZE
      THEN [values |-> Tail(v), weights |-> Tail(w)]
      ELSE [values |-> v, weights |-> w]

\* variant: no decay, every sample has recency weight 1
Recency_NoDecay(k) == 625

\* Math.pow(0.8, k) scaled by 5^4: 625 * (4/5)^k for k in 0..4
Recency(k) ==
  CASE k = 0 -> 625 [] k = 1 -> 500 [] k = 2 -> 400 [] k = 3 -> 320 [] OTHER -> 256

RECURSIVE WeightedSum(_, _)
WeightedSum(buffer, i) ==
  IF i > Len(buffer.values) THEN 0
  ELSE buffer.values[i] * buffer.weights[i] * Recency(Len(buffer.values) - i)
       + WeightedSum(buffer, i + 1)

RECURSIVE TotalWeight(_, _)
TotalWeight(buffer, i) ==
  IF i > Len(buffer.values) THEN 0
  ELSE buffer.weights[i] * Recency(Len(buffer.values) - i)
       + TotalWeight(buffer, i + 1)

\* variant: the total weight leaves the confidences out
Smoothed_ConfidenceDropped(buffer) ==
  LET recencyOnly == [buffer EXCEPT !.weights = [i \in DOMAIN @ |-> 100]]
  IN  IF TotalWeight(buffer, 1) > 0
      THEN <<WeightedSum(buffer, 1), TotalWeight(recencyOnly, 1)>>
      ELSE <<buffer.values[Len(buffer.values)], 1>>

\* the value smoothMetric returns for the buffer it has just pushed to
Smoothed(buffer) ==
  IF TotalWeight(buffer, 1) > 0
  THEN <<WeightedSum(buffer, 1), TotalWeight(buffer, 1)>>
  ELSE <<buffer.values[Len(buffer.values)], 1>>

smoothMetric(buffer, value, confidence) ==
  LET pushed == PushBuffer(buffer, value, confidence)
  IN  [buffer |-> pushed, result |-> Smoothed(pushed)]

(***************************************************************************)
(* The same computation in binary floating point, as the code's numbers    *)
(* are: round to nearest, ties to even, after every operation.  A float is *)
(* <<m, e>> for m * 2^e with 2^(MantissaBits-1) <= m < 2^MantissaBits, or  *)
(* <<0, 0>>.  A double has 53 mantissa bits; the model keeps fewer.        *)
(***************************************************************************)
RECURSIVE Pow2(_)
Pow2(k) == IF k = 0 THEN 1 ELSE 2 * Pow2(k - 1)

RECURSIVE BitLen(_)
BitLen(n) == IF n = 0 THEN 0 ELSE 1 + BitLen(n \div 2)

\* the float nearest to (n + f) * 2^e, where 0 < f < 1 if sticky, else f = 0
FRound(n, e, sticky) ==
  LET k == BitLen(n) - MantissaBits
  IN  IF n = 0 THEN <<0, 0>>
      ELSE IF k <= 0 THEN <<n * Pow2(-k), e + k>>
      ELSE LET q == n \div Pow2(k)
               r == n % Pow2(k)
               half == Pow2(k - 1)
               up == r > half \/ (r = half /\ (sticky \/ q % 2 = 1))
               q2 == IF up THEN q + 1 ELSE q
           IN  IF q2 = Pow2(MantissaBits)
               THEN <<Pow2(MantissaBits - 1), e + k + 1>>
               ELSE <<q2, e + k>>

FMul(a, b) == FRound(a[1] * b[1], a[2] + b[2], FALSE)

FAdd(a, b) ==
  IF a[1] = 0 THEN b
  ELSE IF b[1] = 0 THEN a
  ELSE LET lo == IF a[2] < b[2] THEN a[2] ELSE b[2]
       IN  FRound(a[1] * Pow2(a[2] - lo) + b[1] * Pow2(b[2] - lo), lo, FALSE)

\* num / den for integers num >= 0, den > 0
FRatio(num, den) ==
  LET scaled == num * Pow2(MantissaBits + 2)
  IN  FRound(scaled \div den, -(MantissaBits + 2), scaled % den # 0)

FDiv(a, b) ==
  LET f == FRatio(a[1], b[1]) IN IF f[1] = 0 THEN f ELSE <<f[1], f[2] + a[2] - b[2]>>

\* Math.pow(0.8, k), by repeated multiplication of the float 0.8
RECURSIVE FPow(_, _)
FPow(b, k) == IF k = 0 THEN FRatio(1, 1) ELSE FMul(FPow(b, k - 1), b)

\* recency of the sample k places before the newest one
FloatRecency == [k \in 0..(BUFFER_SIZE - 1) |-> FPow(FRatio(4, 5), k)]

\* weight = buffer.weights[i] * recency
FloatWeight(buffer, i) ==
  FMul(FRatio(buffer.weights[i], 100), FloatRecency[Len(buffer.values) - i])

\* weightedSum after the loop has handled the samples 1..i
RECURSIVE FloatWeightedSum(_, _)
FloatWeightedSum(buffer, i) ==
  IF i = 0 THEN <<0, 0>>
  ELSE FAdd(FloatWeightedSum(buffer, i - 1),
            FMul(FRatio(buffer.values[i], 1), FloatWeight(buffer, i)))

\* totalWeight after the loop has handled the samples 1..i
RECURSIVE FloatTotalWeight(_, _)
FloatTotalWeight(buffer, i) ==
  IF i = 0 THEN <<0, 0>>
  ELSE FAdd(FloatTotalWeight(buffer, i - 1), FloatWeight(buffer, i))

\* totalWeight > 0 ? weightedSum / totalWeight : value
SmoothedFloat(buffer) ==
  IF FloatTotalWeight(buffer, Len(buffer.values))[1] > 0
  THEN FDiv(FloatWeightedSum(buffer, Len(buffer.values)),
            FloatTotalWeight(buffer, Len(buffer.values)))
  ELSE FRatio(buffer.values[Len(buffer.values)], 1)

(***************************************************************************)
(* Repetition state machine (detectRep)                                    *)
(***************************************************************************)
\* variant: the hysteresis is left out of the descent test
DescentStarted_NoHysteresis(state, smoothed, thr) ==
  state = "UP" /\ FracLt(smoothed, thr.down)

\* UP -> TRANSITIONING
DescentStarted(state, smoothed, thr) ==
  state = "UP" /\ FracLt(smoothed, thr.down - thr.hysteresis)

\* variant: reaching up + hysteresis exactly already completes
RepCompleted_Inclusive(state, smoothed, thr) ==
  state = "TRANSITIONING" /\ ~FracLt(smoothed, thr.up + thr.hysteresis)

\* variant: a rise from DOWN completes a repetition as well
RepCompleted_FromDown(state, smoothed, thr) ==
  state # "UP" /\ FracGt(smoothed, thr.up + thr.hysteresis)

\* TRANSITIONING -> UP crossing
RepCompleted(state, smoothed, thr) ==
  state = "TRANSITIONING" /\ FracGt(smoothed, thr.up + thr.hysteresis)

\* variant: the hysteresis is subtracted from the upper threshold
ReturnedUp_HysteresisBelow(state, smoothed, thr) ==
  state = "DOWN" /\ FracGt(smoothed, thr.up - thr.hysteresis)

\* DOWN -> UP
ReturnedUp(state, smoothed, thr) ==
  state = "DOWN" /\ FracGt(smoothed, thr.up + thr.hysteresis)

\* TRANSITIONING -> DOWN
WentDeep(state, smoothed, thr) ==
  state = "TRANSITIONING" /\ FracLt(smoothed, thr.down - thr.hysteresis * 2)

\* variant: a repetition exactly 500 ms after the previous one is debounced
Debounced_Inclusive(now, lastRep) == now - lastRep <= DebounceMs

Debounced(now, lastRep) == now - lastRep < DebounceMs

\* variant: a repetition is never too slow
DurationRejected_NoUpperBound(durationMs) == durationMs < MinDurationMs

\* duration < 0.3 || duration > 10, with duration = durationMs / 1000
DurationRejected(durationMs) ==
  durationMs < MinDurationMs \/ durationMs > MaxDurationMs

\* variant: the record carries the count before the increment
AcceptRep_StaleCount(refs, now, analysis) ==
  LET durationMs == now - refs.repStartTime
      repData == [count |-> refs.repCountRef,
                  duration |-> durationMs,
                  quality |-> analysis.quality,
                  timestamp |-> now,
                  confidence |-> analysis.confidence]
      history == Append(refs.repHistory, repData)
  IN  [refs EXCEPT !.repState = "UP",
                   !.lastRepTime = now,
                   !.repHistory = history,
                   !.qualitySum = @ + analysis.quality,
                   !.confidenceSum = @ + analysis.confidence,
                   !.lastRepDuration = durationMs,
                   !.avgQuality = <<refs.qualitySum + analysis.quality, Len(history)>>,
                   !.avgConfidence = <<refs.confidenceSum + analysis.confidence, Len(history)>>,
                   !.repDetected = TRUE]

\* variant: an accepted repetition leaves the state machine in TRANSITIONING
AcceptRep_KeepsTransitioning(refs, now, analysis) ==
  LET durationMs == now - refs.repStartTime
      repData == [count |-> refs.repCountRef + 1,
                  duration |-> durationMs,
                  quality |-> analysis.quality,
                  timestamp |-> now,
                  confidence |-> analysis.confidence]
      history == Append(refs.repHistory, repData)
  IN  [refs EXCEPT !.lastRepTime = now,
                   !.repHistory = history,
                   !.qualitySum = @ + analysis.quality,
                   !.confidenceSum = @ + analysis.confidence,
                   !.lastRepDuration = durationMs,
                   !.avgQuality = <<refs.qualitySum + analysis.quality, Len(history)>>,
                   !.avgConfidence = <<refs.confidenceSum + analysis.confidence, Len(history)>>,
                   !.repDetected = TRUE]

\* the branch of the accepted repetition
AcceptRep(refs, now, analysis) ==
  LET durationMs == now - refs.repStartTime
      repData == [count |-> refs.repCountRef + 1,
                  duration |-> durationMs,
                  quality |-> analysis.quality,
                  timestamp |-> now,
                  confidence |-> analysis.confidence]
      history == Append(refs.repHistory, repData)
  IN  [refs EXCEPT !.repState = "UP",
                   !.lastRepTime = now,
                   !.repHistory = history,
                   !.qualitySum = @ + analysis.quality,
                   !.confidenceSum = @ + analysis.confidence,
                   !.lastRepDuration = durationMs,
                   !.avgQuality = <<refs.qualitySum + analysis.quality, Len(history)>>,
                   !.avgConfidence = <<refs.confidenceSum + analysis.confidence, Len(history)>>,
                   !.repDetected = TRUE]

\* variant: a repetition rejected for its duration still shows that duration
RepStep_RejectedDurationShown(refs, smoothed, thr, now, analysis) ==
  IF DescentStarted(refs.repState, smoothed, thr)
  THEN [refs EXCEPT !.repState = "TRANSITIONING", !.repStartTime = now]
  ELSE IF RepCompleted(refs.repState, smoothed, thr)
  THEN IF Debounced(now, refs.lastRepTime)
       THEN refs
       ELSE IF DurationRejected(now - refs.repStartTime)
       THEN [refs EXCEPT !.repState = "UP",
                         !.lastRepDuration = now - refs.repStartTime]
       ELSE AcceptRep(refs, now, analysis)
  ELSE IF ReturnedUp(refs.repState, smoothed, thr)
  THEN [refs EXCEPT !.repState = "UP"]
  ELSE IF WentDeep(refs.repState, smoothed, thr)
  THEN [refs EXCEPT !.repState = "DOWN"]
  ELSE refs

\* variant: a debounced completion restarts the debounce window
RepStep_DebounceRestarts(refs, smoothed, thr, now, analysis) ==
  IF DescentStarted(refs.repState, smoothed, thr)
  THEN [refs EXCEPT !.repState = "TRANSITIONING", !.repStartTime = now]
  ELSE IF RepCompleted(refs.repState, smoothed, thr)
  THEN IF Debounced(now, refs.lastRepTime)
       THEN [refs EXCEPT !.lastRepTime = now]
       ELSE IF DurationRejected(now - refs.repStartTime)
       THEN [refs EXCEPT !.repState = "UP"]
       ELSE AcceptRep(refs, now, analysis)
  ELSE IF ReturnedUp(refs.repState, smoothed, thr)
  THEN [refs EXCEPT !.repState = "UP"]
  ELSE IF WentDeep(refs.repState, smoothed, thr)
  THEN [refs EXCEPT !.repState = "DOWN"]
  ELSE refs

\* the if / else-if chain on the smoothed angle
RepStep(refs, smoothed, thr, now, analysis) ==
  IF DescentStarted(refs.repState, smoothed, thr)
  THEN [refs EXCEPT !.repState = "TRANSITIONING", !.repStartTime = now]
  ELSE IF RepCompleted(refs.repState, smoothed, thr)
  THEN IF Debounced(now, refs.lastRepTime)
       THEN refs
       ELSE IF DurationRejected(now - refs.repStartTime)
       THEN [refs EXCEPT !.repState = "UP"]
       ELSE AcceptRep(refs, now, analysis)
  ELSE IF ReturnedUp(refs.repState, smoothed, thr)
  THEN [refs EXCEPT !.repState = "UP"]
  ELSE IF WentDeep(refs.repState, smoothed, thr)
  THEN [refs EXCEPT !.repState = "DOWN"]
  ELSE refs

\* refs.repDetected is the returned boolean
detectRep(refs, exercise, analysis, now) ==
  IF ~analysis.isValid
  THEN refs
  ELSE IF analysis.confidence < MIN_CONFIDENCE_THRESHOLD
  THEN refs
  ELSE LET primary == getPrimaryAngle(exercise, analysis)
           sm == smoothMetric(refs.metricBuffer, primary.angle, primary.confidence)
       IN  RepStep([refs EXCEPT !.metricBuffer = sm.buffer], sm.result,
                   thresholdsOf[exercise], now, analysis)

(***************************************************************************)
(* State                                                                   *)
(***************************************************************************)
VARIABLES
  selectedExercise,   \* CoachPage state
  isSessionActive,    \* CoachPage state, the hook's isActive
  landmarker,         \* "loading", "ready" or "failed" (isModelLoaded = "ready")
  repCount,           \* hook state exposed to the page
  lastRepDuration,    \* ms
  avgQuality,         \* fraction
  avgConfidence,      \* fraction
  requestRef,         \* TRUE while an animation-frame callback is scheduled
  lastProcessedTime,  \* performance.now() of the last processed frame
  repState,
  repStartTime,
  lastRepTime,
  repHistory,
  qualitySum,
  confidenceSum,
  repCountRef,
  metricBuffer,
  clock,              \* performance.now(); Date.now() = Epoch + clock
  debouncedAt,        \* Date.now() of the first completion of the current
                      \* descent that the debounce returned on (0: none)
  samples,            \* the smoothed angles fed to the state machine alone
  sampleTimes,        \* Date.now() of the samples fed so far
  pushes,             \* the <<value, confidence>> pairs given to smoothMetric
                      \* since the buffer was last emptied
  lastSmoothed,       \* what the last call of smoothMetric returned, in
                      \* real arithmetic
  lastLandmarks,      \* the landmark frame last given to analyzeExercise
  lastAnalysis,       \* the record analyzeExercise returned for it
  standing,           \* the person in front of the camera has stood up and
                      \* stays upright
  helperCall,         \* the call of a geometry helper on its own: its name
                      \* and arguments
  helperResult,       \* what that call returned
  camera,             \* useCamera: its state, the getUserMedia requests in
                      \* flight, and the page's cameraPermissionDenied
  uploadQueue,        \* the UploadQueue object and the promises add returned
  extraction          \* one call of extractFramesFromVideo: its closure
                      \* variables, the video element and the promise

vars == <<selectedExercise, isSessionActive, landmarker, repCount,
          lastRepDuration, avgQuality, avgConfidence, requestRef,
          lastProcessedTime, repState, repStartTime, lastRepTime, repHistory,
          qualitySum, confidenceSum, repCountRef, metricBuffer, clock,
          debouncedAt, samples, sampleTimes, pushes, lastSmoothed,
          lastLandmarks, lastAnalysis, standing, helperCall, helperResult,
          camera, uploadQueue, extraction>>

pageVars == <<selectedExercise, isSessionActive>>
seqVars == <<samples, sampleTimes>>
envVars == <<standing>>
libVars == <<camera, uploadQueue, extraction>>
helperVars == <<helperCall, helperResult>>
fnVars == <<pushes, lastSmoothed, lastLandmarks, lastAnalysis>>
repVars == <<repCount, lastRepDuration, avgQuality, avgConfidence, repState,
             repStartTime, lastRepTime, repHistory, qualitySum, confidenceSum,
             repCountRef, metricBuffer>>

DateNow(perf) == Epoch + perf

\* neither smoothMetric nor analyzeExercise nor a geometry helper has been
\* called on its own
\* useCamera after the first render: useState(null), useState("off"),
\* useState(false); no getUserMedia request has been made (stream 0 is null)
CameraOff ==
  [status |-> "off", stream |-> 0, userDetected |-> FALSE,
   cameraPermissionDenied |-> FALSE, pending |-> {}, requested |-> 0,
   afterDisable |-> FALSE]

\* bound on the number of add calls; the items are numbered in call order
MaxItems == 3

Items == 1..MaxItems

\* new UploadQueue(): queue = [], processing = false; no upload is running
\* and add has returned no promise
EmptyUploadQueue ==
  [queue |-> << >>,
   processing |-> FALSE,
   uploads |-> {},                        \* the upload calls awaited
   started |-> << >>,                     \* the items in the order of upload
   added |-> 0,                           \* add calls so far
   promises |-> [i \in Items |-> "none"], \* the promise add returned
   results |-> [i \in Items |-> "none"],  \* how the upload of the item ended
   settles |-> [i \in Items |-> 0]]       \* calls of resolve or reject

\* extractFramesFromVideo has not been called
NotExtracting ==
  [promise |-> "none",      \* "pending", "resolved" or "rejected" once called
   frameCount |-> 0,
   metadata |-> "none",     \* "loading", "loaded" or "invalid"
   frames |-> << >>,        \* the array; a frame is the number of its seek
   currentFrame |-> 0,
   seeking |-> 0,           \* the seek in flight (0: none)
   timer |-> "none",        \* the safety timeout: "armed", "cleared", "fired"
   url |-> "none",          \* the object URL: "live" or "revoked"
   errors |-> 0]            \* error events of the video element

NoCalls ==
  /\ pushes = << >>
  /\ lastSmoothed = <<0, 1>>
  /\ lastLandmarks = [none |-> TRUE]
  /\ lastAnalysis = [none |-> TRUE]
  /\ helperCall = [none |-> TRUE]
  /\ helperResult = [none |-> TRUE]
  /\ camera = CameraOff
  /\ uploadQueue = EmptyUploadQueue
  /\ extraction = NotExtracting

Poses ==
  {[kind |-> "none"], [kind |-> "hidden"]}
  \cup {[kind |-> "visible", angle |-> a, angleConf |-> v[1], conf |-> v[2],
         quality |-> QualityOf(v[2])] : a \in Angles, v \in Visibilities}

\* what a callback meets: the video not ready yet, or ready with a pose
FrameInputs ==
  {[ready |-> FALSE, pose |-> [kind |-> "none"]]}
  \cup {[ready |-> TRUE, pose |-> p] : p \in Poses}

Refs ==
  [repState |-> repState, repStartTime |-> repStartTime,
   lastRepTime |-> lastRepTime, repHistory |-> repHistory,
   qualitySum |-> qualitySum, confidenceSum |-> confidenceSum,
   repCountRef |-> repCountRef, metricBuffer |-> metricBuffer,
   lastRepDuration |-> lastRepDuration, avgQuality |-> avgQuality,
   avgConfidence |-> avgConfidence, repDetected |-> FALSE]

\* the refs and state written by detectRep and by analyze after it
StoreRefs(r) ==
  /\ repState' = r.repState
  /\ repStartTime' = r.repStartTime
  /\ lastRepTime' = r.lastRepTime
  /\ repHistory' = r.repHistory
  /\ qualitySum' = r.qualitySum
  /\ confidenceSum' = r.confidenceSum
  /\ metricBuffer' = r.metricBuffer
  /\ lastRepDuration' = r.lastRepDuration
  /\ avgQuality' = r.avgQuality
  /\ avgConfidence' = r.avgConfidence
  /\ repCountRef' = IF r.repDetected THEN repCountRef + 1 ELSE repCountRef
  /\ repCount' = IF r.repDetected THEN repCountRef + 1 ELSE repCount

\* variant: the averages are truncated for display
Exposed_Truncated(avg) == avg[1] \div avg[2]

\* what the hook returns for an average kept in its state: Math.round(avg),
\* and, with avgConfidence in percent, Math.round(avg * 100) in hundredths
Exposed(avg) == (2 * avg[1] + avg[2]) \div (2 * avg[2])

\* the avgQuality and avgConfidence (hundredths) fields of the returned object
ExposedAvgQuality == Exposed(avgQuality)
ExposedAvgConfidence == Exposed(avgConfidence)

Init ==
  /\ selectedExercise = NoExercise
  /\ isSessionActive = FALSE
  /\ landmarker = "loading"
  /\ repCount = 0
  /\ lastRepDuration = 0
  /\ avgQuality = <<0, 1>>
  /\ avgConfidence = <<0, 1>>
  /\ requestRef = FALSE
  /\ lastProcessedTime = 0
  /\ repState = "UP"
  /\ repStartTime = 0
  /\ lastRepTime = 0
  /\ repHistory = << >>
  /\ qualitySum = 0
  /\ confidenceSum = 0
  /\ repCountRef = 0
  /\ metricBuffer = EmptyBuffer
  /\ clock = StartClock
  /\ debouncedAt = 0
  /\ samples = << >>
  /\ sampleTimes = << >>
  /\ NoCalls
  /\ standing = FALSE

(***************************************************************************)
(* Effects of usePoseAnalysis                                              *)
(***************************************************************************)
\* variant: the loop effect schedules analyze whether or not the session is
\* active
LoopScheduled_IgnoresActive(active, lm, exercise) ==
  lm = "ready" /\ exercise # NoExercise

\* the loop effect after a render with these dependencies: the cleanup has
\* cancelled the scheduled callback, the body schedules analyze again
LoopScheduled(active, lm, exercise) ==
  active /\ lm = "ready" /\ exercise # NoExercise

\* createLandmarker resolves
LandmarkerLoaded ==
  /\ landmarker = "loading"
  /\ landmarker' = "ready"
  /\ requestRef' = LoopScheduled(isSessionActive, "ready", selectedExercise)
  /\ UNCHANGED <<pageVars, repVars, lastProcessedTime, clock, debouncedAt, seqVars, envVars, libVars, helperVars, fnVars>>

\* createLandmarker throws
LandmarkerFailed ==
  /\ landmarker = "loading"
  /\ landmarker' = "failed"
  /\ UNCHANGED <<pageVars, repVars, requestRef, lastProcessedTime, clock,
                 debouncedAt, seqVars, envVars, libVars, helperVars, fnVars>>

\* variant: the reset effect leaves the history as it is
ResetEffect_KeepsHistory ==
  /\ repCount' = 0
  /\ repCountRef' = 0
  /\ avgQuality' = <<0, 1>>
  /\ avgConfidence' = <<0, 1>>
  /\ qualitySum' = 0
  /\ confidenceSum' = 0
  /\ repState' = "UP"
  /\ metricBuffer' = EmptyBuffer
  /\ UNCHANGED <<repHistory, repStartTime, lastRepTime, lastRepDuration>>

\* the reset effect, run when selectedExercise has changed
ResetEffect ==
  /\ repCount' = 0
  /\ repCountRef' = 0
  /\ avgQuality' = <<0, 1>>
  /\ avgConfidence' = <<0, 1>>
  /\ repHistory' = << >>
  /\ qualitySum' = 0
  /\ confidenceSum' = 0
  /\ repState' = "UP"
  /\ metricBuffer' = EmptyBuffer
  /\ UNCHANGED <<repStartTime, lastRepTime, lastRepDuration>>

(***************************************************************************)
(* Coach page                                                              *)
(***************************************************************************)
\* the exercise Select (disabled while the session is active)
SelectExercise(exercise) ==
  /\ ~isSessionActive
  /\ exercise # selectedExercise
  /\ selectedExercise' = exercise
  /\ ResetEffect
  /\ requestRef' = LoopScheduled(isSessionActive, landmarker, exercise)
  /\ debouncedAt' = 0
  /\ UNCHANGED <<isSessionActive, landmarker, lastProcessedTime, clock, seqVars, envVars, libVars, helperVars, fnVars>>

\* variant: starting a session also runs the reset effect
handleStartSession_Resetting(cameraStatus) ==
  IF selectedExercise = NoExercise \/ cameraStatus # "on" \/ landmarker # "ready"
  THEN UNCHANGED vars
  ELSE /\ isSessionActive' = ~isSessionActive
       /\ requestRef' = LoopScheduled(~isSessionActive, landmarker, selectedExercise)
       /\ IF isSessionActive THEN UNCHANGED repVars ELSE ResetEffect
       /\ UNCHANGED <<selectedExercise, landmarker, lastProcessedTime,
                      clock, debouncedAt, seqVars, envVars, libVars, helperVars, fnVars>>

\* handleStartSession with its three early returns; cameraStatus is the
\* status useCamera reports when the button is clicked
handleStartSession(cameraStatus) ==
  IF selectedExercise = NoExercise \/ cameraStatus # "on" \/ landmarker # "ready"
  THEN UNCHANGED vars
  ELSE /\ isSessionActive' = ~isSessionActive
       /\ requestRef' = LoopScheduled(~isSessionActive, landmarker, selectedExercise)
       /\ UNCHANGED <<selectedExercise, landmarker, repVars, lastProcessedTime,
                      clock, debouncedAt, seqVars, envVars, libVars, helperVars, fnVars>>

(***************************************************************************)
(* The animation-frame loop                                                *)
(***************************************************************************)
\* the completion the debounce returned on: the frame crossed up + hysteresis
\* in TRANSITIONING and the state machine stayed there
DebouncedAt(before, after, now, thr) ==
  IF before.repState = "TRANSITIONING" /\ after.repState = "TRANSITIONING"
     /\ FracGt(Smoothed(after.metricBuffer), thr.up + thr.hysteresis)
  THEN IF debouncedAt = 0 THEN now ELSE debouncedAt
  ELSE IF after.repState # before.repState THEN 0 ELSE debouncedAt

\* variant: a frame exactly 33 ms after the last processed one is dropped too
Throttled_Inclusive(now, last) == now - last <= FrameInterval

\* the frame-rate cap: now - lastProcessedTime.current < 33
Throttled(now, last) == now - last < FrameInterval

\* variant: a frame without enough visible landmarks empties the smoother
HandleAnalysis_InvalidClearsBuffer(analysis, now) ==
  IF ~analysis.isValid
  THEN /\ metricBuffer' = EmptyBuffer
       /\ UNCHANGED <<repCount, lastRepDuration, avgQuality, avgConfidence,
                      repState, repStartTime, lastRepTime, repHistory,
                      qualitySum, confidenceSum, repCountRef, debouncedAt>>
  ELSE \E r \in {detectRep(Refs, selectedExercise, analysis, now)} :
         /\ repCountRef < MaxReps \/ ~r.repDetected
         /\ StoreRefs(r)
         /\ debouncedAt' =
              IF analysis.confidence < MIN_CONFIDENCE_THRESHOLD
              THEN debouncedAt
              ELSE DebouncedAt(Refs, r, now, thresholdsOf[selectedExercise])

\* what analyze does with the record analyzeExercise returned: a valid one
\* goes to detectRep, an invalid one only updates the feedback list
HandleAnalysis(analysis, now) ==
  IF ~analysis.isValid
  THEN UNCHANGED <<repVars, debouncedAt>>
  ELSE \E r \in {detectRep(Refs, selectedExercise, analysis, now)} :
         /\ repCountRef < MaxReps \/ ~r.repDetected
         /\ StoreRefs(r)
         /\ debouncedAt' =
              IF analysis.confidence < MIN_CONFIDENCE_THRESHOLD
              THEN debouncedAt
              ELSE DebouncedAt(Refs, r, now, thresholdsOf[selectedExercise])

\* one run of analyze, dt ms after the previous one; ready is
\* videoRef.current.readyState >= 2, pose what detectForVideo returns
analyze(dt, ready, pose) ==
  /\ requestRef
  /\ clock < MaxClock
  /\ clock' = clock + dt
  /\ requestRef' = isSessionActive
  /\ UNCHANGED <<pageVars, landmarker, seqVars, envVars, libVars, helperVars, fnVars>>
  /\ IF landmarker # "ready" \/ ~ready \/ selectedExercise = NoExercise
     THEN UNCHANGED <<repVars, lastProcessedTime, debouncedAt>>
     ELSE IF Throttled(clock', lastProcessedTime)
     THEN UNCHANGED <<repVars, lastProcessedTime, debouncedAt>>
     ELSE /\ lastProcessedTime' = clock'
          /\ IF pose.kind = "none"
             THEN UNCHANGED <<repVars, debouncedAt>>
             ELSE \E analysis \in {analyzeExercise(selectedExercise, pose)} :
                    HandleAnalysis(analysis, DateNow(clock'))

Next ==
  \/ LandmarkerLoaded
  \/ LandmarkerFailed
  \/ \E exercise \in exercises : SelectExercise(exercise)
  \/ \E cameraStatus \in {"off", "on", "error"} : handleStartSession(cameraStatus)
  \/ \E dt \in Deltas, in \in FrameInputs : analyze(dt, in.ready, in.pose)

Spec == Init /\ [][Next]_vars

(***************************************************************************)
(* One running squat session: the state after the model has loaded, the    *)
(* camera is on, "Agachamento" is selected and the session has started;    *)
(* from there only frame callbacks happen.                                 *)
(***************************************************************************)
SessionInit ==
  /\ selectedExercise = Agachamento
  /\ isSessionActive = TRUE
  /\ landmarker = "ready"
  /\ repCount = 0
  /\ lastRepDuration = 0
  /\ avgQuality = <<0, 1>>
  /\ avgConfidence = <<0, 1>>
  /\ requestRef = TRUE
  /\ lastProcessedTime = 0
  /\ repState = "UP"
  /\ repStartTime = 0
  /\ lastRepTime = 0
  /\ repHistory = << >>
  /\ qualitySum = 0
  /\ confidenceSum = 0
  /\ repCountRef = 0
  /\ metricBuffer = EmptyBuffer
  /\ clock = StartClock
  /\ debouncedAt = 0
  /\ samples = << >>
  /\ sampleTimes = << >>
  /\ NoCalls
  /\ standing = FALSE

SessionPoses == Poses \ {[kind |-> "none"]}

SessionNext ==
  \E dt \in SessionDeltas, pose \in SessionPoses : analyze(dt, TRUE, pose)

SessionSpec == SessionInit /\ [][SessionNext]_vars

(***************************************************************************)
(* A workout: the running squat session, in which the user may also stop   *)
(* and restart the session and, while it is stopped, choose another        *)
(* exercise.                                                               *)
(***************************************************************************)
WorkoutExercises == {Agachamento, Flexao}

WorkoutNext ==
  \/ \E dt \in SessionDeltas, pose \in SessionPoses : analyze(dt, TRUE, pose)
  \/ handleStartSession("on")
  \/ \E exercise \in WorkoutExercises : SelectExercise(exercise)

WorkoutSpec == SessionInit /\ [][WorkoutNext]_vars

(***************************************************************************)
(* Standing up: at some moment of the running squat session the person     *)
(* stands up and stays upright; from then on every frame is evaluable and  *)
(* shows the knee at 180 degrees, and the callbacks keep coming 50 ms      *)
(* apart for as long as the session is active.                             *)
(***************************************************************************)
\* the latest performance.now() at which the person stands up
StandBy == 550
\* the callbacks of this session come 50 ms apart
HoldDelta == 50
UprightPoses == {pose \in SessionPoses : pose.kind = "visible" /\ pose.angle = 180}

FreeFrame ==
  /\ ~standing
  /\ \E pose \in SessionPoses : analyze(HoldDelta, TRUE, pose)

StandUp ==
  /\ ~standing
  /\ clock <= StandBy
  /\ standing' = TRUE
  /\ UNCHANGED <<pageVars, landmarker, repVars, requestRef, lastProcessedTime,
                 clock, debouncedAt, seqVars, libVars, helperVars, fnVars>>

HoldFrame ==
  /\ standing
  /\ \E pose \in UprightPoses : analyze(HoldDelta, TRUE, pose)

RecoveryNext == FreeFrame \/ StandUp \/ HoldFrame

\* requestAnimationFrame runs the scheduled callback
RecoverySpec ==
  SessionInit /\ [][RecoveryNext]_vars /\ WF_vars(HoldFrame)

(***************************************************************************)
(* The frame loop of a running squat session at display rate: callbacks    *)
(* come 16 or 17 ms apart (60 Hz), later in the page's life.               *)
(***************************************************************************)
\* performance.now() when the session's first callback is about to run
LoopStart == 800
LoopDeltas == {16, 17}

LoopInit ==
  /\ selectedExercise = Agachamento
  /\ isSessionActive = TRUE
  /\ landmarker = "ready"
  /\ repCount = 0
  /\ lastRepDuration = 0
  /\ avgQuality = <<0, 1>>
  /\ avgConfidence = <<0, 1>>
  /\ requestRef = TRUE
  /\ lastProcessedTime = 0
  /\ repState = "UP"
  /\ repStartTime = 0
  /\ lastRepTime = 0
  /\ repHistory = << >>
  /\ qualitySum = 0
  /\ confidenceSum = 0
  /\ repCountRef = 0
  /\ metricBuffer = EmptyBuffer
  /\ clock = LoopStart
  /\ debouncedAt = 0
  /\ samples = << >>
  /\ sampleTimes = << >>
  /\ NoCalls
  /\ standing = FALSE

LoopNext ==
  \E dt \in LoopDeltas, pose \in SessionPoses : analyze(dt, TRUE, pose)

LoopSpec == LoopInit /\ [][LoopNext]_vars

(***************************************************************************)
(* The dispatcher in a running session: the hook is given any exercise     *)
(* name, and analyze runs on landmark frames.                              *)
(***************************************************************************)
\* performance.now() when the session's first callback is about to run
DispatchStart == 780
DispatchDeltas == {100}

Point(v) == [present |-> TRUE, hasVisibility |-> TRUE, visibility |-> v]
\* landmarks[i] is undefined
Absent == [present |-> FALSE, hasVisibility |-> FALSE, visibility |-> 0]
\* landmarks[i].visibility is undefined
NoVisibility == [present |-> TRUE, hasVisibility |-> FALSE, visibility |-> 0]

\* every landmark has the base visibility, but one
BasePoints == {Point(60), Point(100)}
OddIndices == {11, 12, 24, 25}
OddPoints == {Absent, NoVisibility, Point(49), Point(50)}

\* every landmark at the same visibility: at the 0.5 threshold and below it
UniformPoints == {[i \in LandmarkIndices |-> Point(v)] : v \in {40, 50}}

PointMaps ==
  {[i \in LandmarkIndices |-> IF i = odd THEN point ELSE base] :
     base \in BasePoints, odd \in OddIndices, point \in OddPoints}
  \cup UniformPoints

\* standing with straight arms and legs
Extended ==
  [elbowAngle |-> 170, kneeAngle |-> 170, kneeAngleR |-> 170, torsoAngle |-> 175,
   bodyAngle |-> 175, shoulderYDist |-> 0, shoulderZDist |-> 0,
   elbowTorsoDistance |-> 100, kneeForwardRatio |-> 0, lateralShift |-> 0,
   hipLineDeviation |-> 0, elbowFlare |-> 0]
\* arms and legs bent
Flexed ==
  [elbowAngle |-> 50, kneeAngle |-> 70, kneeAngleR |-> 70, torsoAngle |-> 150,
   bodyAngle |-> 130, shoulderYDist |-> 0, shoulderZDist |-> 0,
   elbowTorsoDistance |-> 100, kneeForwardRatio |-> 10, lateralShift |-> 20,
   hipLineDeviation |-> 0, elbowFlare |-> 0]
\* every penalty of analyzeSquat and of analyzePushUp applies
Poor ==
  [elbowAngle |-> 130, kneeAngle |-> 130, kneeAngleR |-> 80, torsoAngle |-> 120,
   bodyAngle |-> 90, shoulderYDist |-> 100, shoulderZDist |-> 0,
   elbowTorsoDistance |-> 200, kneeForwardRatio |-> -50, lateralShift |-> 100,
   hipLineDeviation |-> 80, elbowFlare |-> 200]
\* every penalty of analyzeBackRow applies; the legs differ by 17 degrees
PoorRow ==
  [elbowAngle |-> 50, kneeAngle |-> 130, kneeAngleR |-> 113, torsoAngle |-> 150,
   bodyAngle |-> 90, shoulderYDist |-> 0, shoulderZDist |-> 150,
   elbowTorsoDistance |-> 200, kneeForwardRatio |-> 0, lateralShift |-> 0,
   hipLineDeviation |-> 0, elbowFlare |-> 0]

\* the elbow exactly at the high threshold of the phase, the knees at the low
AtThreshold ==
  [elbowAngle |-> 150, kneeAngle |-> 110, kneeAngleR |-> 110, torsoAngle |-> 160,
   bodyAngle |-> 140, shoulderYDist |-> 0, shoulderZDist |-> 0,
   elbowTorsoDistance |-> 100, kneeForwardRatio |-> 0, lateralShift |-> 0,
   hipLineDeviation |-> 0, elbowFlare |-> 0]

Measures == {Extended, Flexed, Poor, PoorRow, AtThreshold}

LandmarkFrames ==
  {[points |-> p, measure |-> m] : p \in PointMaps, m \in Measures}

DispatchInit ==
  /\ selectedExercise \in ExerciseNames
  /\ isSessionActive = TRUE
  /\ landmarker = "ready"
  /\ repCount = 0
  /\ lastRepDuration = 0
  /\ avgQuality = <<0, 1>>
  /\ avgConfidence = <<0, 1>>
  /\ requestRef = TRUE
  /\ lastProcessedTime = 0
  /\ repState = "UP"
  /\ repStartTime = 0
  /\ lastRepTime = 0
  /\ repHistory = << >>
  /\ qualitySum = 0
  /\ confidenceSum = 0
  /\ repCountRef = 0
  /\ metricBuffer = EmptyBuffer
  /\ clock = DispatchStart
  /\ debouncedAt = 0
  /\ samples = << >>
  /\ sampleTimes = << >>
  /\ NoCalls
  /\ standing = FALSE

\* one run of analyze on a ready video in which detectForVideo finds frame
analyzeFrame(dt, frame) ==
  /\ requestRef
  /\ clock < MaxClock
  /\ clock' = clock + dt
  /\ requestRef' = isSessionActive
  /\ UNCHANGED <<pageVars, landmarker, seqVars, envVars, libVars, helperVars, pushes, lastSmoothed>>
  /\ IF landmarker # "ready" \/ selectedExercise = NoExercise
        \/ Throttled(clock', lastProcessedTime)
     THEN UNCHANGED <<repVars, lastProcessedTime, debouncedAt, lastLandmarks,
                      lastAnalysis>>
     ELSE /\ lastProcessedTime' = clock'
          /\ lastLandmarks' = frame
          /\ \E record \in {analyzeExerciseLandmarks(selectedExercise, frame)} :
               /\ lastAnalysis' = record
               /\ HandleAnalysis(AsAnalysis(record), DateNow(clock'))

DispatchNext ==
  \E dt \in DispatchDeltas, frame \in LandmarkFrames : analyzeFrame(dt, frame)

DispatchSpec == DispatchInit /\ [][DispatchNext]_vars

(***************************************************************************)
(* The state machine alone: the part of detectRep after the smoother, fed  *)
(* a given sequence of smoothed angles with squat thresholds, from the     *)
(* initial state, each sample with confidence 1.0.                         *)
(***************************************************************************)
\* the 6th sample of the sequence
FinalSamples == {160, 161, 170}
\* time between two samples (ms)
SampleGaps == {500, 3000, 4000}

SquatSamples(final) == <<170, 170, 85, 85, 85, final>>

FullConfidence ==
  [isValid |-> TRUE, quality |-> 100, confidence |-> 100,
   metrics |-> [name \in {"knee"} |-> [angle |-> 0, confidence |-> 100]]]

SeqInit ==
  /\ selectedExercise = Agachamento
  /\ isSessionActive = TRUE
  /\ landmarker = "ready"
  /\ repCount = 0
  /\ lastRepDuration = 0
  /\ avgQuality = <<0, 1>>
  /\ avgConfidence = <<0, 1>>
  /\ requestRef = TRUE
  /\ lastProcessedTime = 0
  /\ repState = "UP"
  /\ repStartTime = 0
  /\ lastRepTime = 0
  /\ repHistory = << >>
  /\ qualitySum = 0
  /\ confidenceSum = 0
  /\ repCountRef = 0
  /\ metricBuffer = EmptyBuffer
  /\ clock = StartClock
  /\ debouncedAt = 0
  /\ samples \in {SquatSamples(final) : final \in FinalSamples}
  /\ sampleTimes = << >>
  /\ NoCalls
  /\ standing = FALSE

\* the next sample of the sequence, gap ms after the previous one
FeedSample(gap) ==
  /\ Len(sampleTimes) < Len(samples)
  /\ clock' = clock + gap
  /\ lastProcessedTime' = clock'
  /\ sampleTimes' = Append(sampleTimes, DateNow(clock'))
  /\ \E r \in {RepStep(Refs, <<samples[Len(sampleTimes) + 1], 1>>,
                       thresholdsOf[Agachamento], DateNow(clock'), FullConfidence)} :
       StoreRefs(r)
  /\ UNCHANGED <<pageVars, landmarker, requestRef, debouncedAt, samples, envVars, libVars, helperVars,
                 fnVars>>

SeqNext == \E gap \in SampleGaps : FeedSample(gap)

SeqSpec == SeqInit /\ [][SeqNext]_vars

(***************************************************************************)
(* The smoother alone: smoothMetric called with given values and           *)
(* confidences, and the reset of its buffer when the exercise changes.     *)
(***************************************************************************)
\* calls of smoothMetric explored between two resets
MaxPushes == 6
PushValues == {60, 180}
PushConfidences == {0, 50, 100}

SmootherInit == SessionInit

\* smoothMetric(value, confidence)
Push(value, confidence) ==
  /\ Len(pushes) < MaxPushes
  /\ \E sm \in {smoothMetric(metricBuffer, value, confidence)} :
       /\ metricBuffer' = sm.buffer
       /\ lastSmoothed' = sm.result
  /\ pushes' = Append(pushes, <<value, confidence>>)
  /\ UNCHANGED <<pageVars, landmarker, requestRef, lastProcessedTime, clock,
                 debouncedAt, seqVars, envVars, libVars, helperVars, lastLandmarks, lastAnalysis,
                 repCount, lastRepDuration, avgQuality, avgConfidence, repState,
                 repStartTime, lastRepTime, repHistory, qualitySum,
                 confidenceSum, repCountRef>>

\* the hook is rendered with another selectedExercise: the reset effect runs
ExerciseChanged(exercise) ==
  /\ exercise # selectedExercise
  /\ selectedExercise' = exercise
  /\ ResetEffect
  /\ pushes' = << >>
  /\ UNCHANGED <<isSessionActive, landmarker, requestRef, lastProcessedTime,
                 clock, debouncedAt, seqVars, envVars, libVars, helperVars, lastSmoothed, lastLandmarks,
                 lastAnalysis>>

SmootherNext ==
  \/ \E value \in PushValues, confidence \in PushConfidences : Push(value, confidence)
  \/ \E exercise \in {Agachamento, Flexao} : ExerciseChanged(exercise)

SmootherSpec == SmootherInit /\ [][SmootherNext]_vars

(***************************************************************************)
(* The geometry helpers alone: each is called with given arguments.        *)
(***************************************************************************)
HelperIndices == {11, 13, 15}
HelperPoints == {Absent, NoVisibility, Point(0), Point(50), Point(100)}
HelperAngles == {90}

Coordinates == {0, 1}
Positions ==
  {[x |-> x, y |-> y, hasZ |-> TRUE, z |-> z] :
     x \in Coordinates, y \in Coordinates, z \in Coordinates}
  \cup {[x |-> x, y |-> y, hasZ |-> FALSE, z |-> 0] :
          x \in Coordinates, y \in Coordinates}

NoHelperCall == [none |-> TRUE]

HelperReturns(call, result) ==
  /\ helperCall = NoHelperCall
  /\ helperCall' = call
  /\ helperResult' = result
  /\ UNCHANGED <<pageVars, landmarker, repVars, requestRef, lastProcessedTime,
                 clock, debouncedAt, seqVars, envVars, libVars, fnVars>>

CallAverageConfidence(points, indices) ==
  HelperReturns([fn |-> "getAverageConfidence", points |-> points,
                 indices |-> indices],
                [value |-> getAverageConfidence(points, indices)])

CallWeightedAngle(angle, a, b, c) ==
  HelperReturns([fn |-> "calculateWeightedAngle", a |-> a, b |-> b, c |-> c],
                calculateWeightedAngle(angle, a, b, c))

CallAngle(a, b, c) ==
  HelperReturns([fn |-> "calculateAngle", a |-> a, b |-> b, c |-> c],
                calculateAngle(a, b, c))

CallPointToLineDistance(q, a, b) ==
  HelperReturns([fn |-> "pointToLineDistance", p |-> q, a |-> a, b |-> b],
                [value |-> pointToLineDistance(q, a, b)])

\* the caller goes on to its next call
NextCall ==
  /\ helperCall # NoHelperCall
  /\ helperCall' = NoHelperCall
  /\ helperResult' = [none |-> TRUE]
  /\ UNCHANGED <<pageVars, landmarker, repVars, requestRef, lastProcessedTime,
                 clock, debouncedAt, seqVars, envVars, libVars, fnVars>>

GeometryNext ==
  \/ \E points \in [HelperIndices -> HelperPoints], indices \in SUBSET HelperIndices :
       CallAverageConfidence(points, indices)
  \/ \E angle \in HelperAngles, a \in HelperPoints \ {Absent},
        b \in HelperPoints \ {Absent}, c \in HelperPoints \ {Absent} :
       CallWeightedAngle(angle, a, b, c)
  \/ \E a \in Positions, b \in Positions, c \in Positions : CallAngle(a, b, c)
  \/ \E q \in Positions, a \in Positions, b \in Positions :
       CallPointToLineDistance(q, a, b)
  \/ NextCall

GeometrySpec == SessionInit /\ [][GeometryNext]_vars

(***************************************************************************)
(* useCamera and the camera buttons of the coach page.  enableCamera is    *)
(* asynchronous: it sets no state before getUserMedia answers, so the      *)
(* button that called it stays as it was while the request is in flight.   *)
(***************************************************************************)
\* bound on the number of enableCamera calls
MaxRequests == 3

\* the rejections of getUserMedia the page tells apart
GetUserMediaErrors == {"NotAllowedError", "NotReadableError"}

\* usePoseAnalysis and the helpers, which the camera does not touch
poseVars == <<landmarker, repVars, requestRef, lastProcessedTime, clock,
              debouncedAt, seqVars, envVars, helperVars, fnVars>>

\* enableCamera up to its await: the request is made, no state is set
enableCamera(cam) ==
  [cam EXCEPT !.requested = @ + 1,
              !.pending = @ \cup {cam.requested + 1},
              !.afterDisable = FALSE]

\* disableCamera: the tracks are stopped, the state is cleared; a request
\* in flight is left alone
disableCamera(cam) ==
  [cam EXCEPT !.stream = 0,
              !.status = "off",
              !.userDetected = FALSE,
              !.afterDisable = TRUE]

\* the "Ativar Camera" button, rendered while the status is "off"
EnableButton ==
  /\ camera.status = "off"
  /\ camera.requested < MaxRequests
  /\ camera' = enableCamera(camera)
  /\ UNCHANGED <<pageVars, poseVars, uploadQueue, extraction>>

\* "Tentar Novamente" in the permission card
RetryButton ==
  /\ camera.cameraPermissionDenied
  /\ camera.requested < MaxRequests
  /\ camera' = enableCamera([camera EXCEPT !.cameraPermissionDenied = FALSE])
  /\ UNCHANGED <<pageVars, poseVars, uploadQueue, extraction>>

\* the camera-off button, rendered unless the status is "off" and disabled
\* while the session is active
DisableButton ==
  /\ camera.status # "off"
  /\ ~isSessionActive
  /\ camera' = disableCamera(camera)
  /\ UNCHANGED <<pageVars, poseVars, uploadQueue, extraction>>

\* getUserMedia resolves: the rest of the try block and onCameraEnabled
GetUserMediaResolves(request) ==
  /\ request \in camera.pending
  /\ camera' = [camera EXCEPT !.pending = @ \ {request},
                               !.stream = request,
                               !.status = "on",
                               !.userDetected = TRUE,
                               !.cameraPermissionDenied = FALSE]
  /\ UNCHANGED <<pageVars, poseVars, uploadQueue, extraction>>

\* getUserMedia rejects: the catch block and onError
GetUserMediaRejects(request, error) ==
  /\ request \in camera.pending
  /\ camera' = [camera EXCEPT !.pending = @ \ {request},
                               !.status = "error",
                               !.cameraPermissionDenied =
                                  IF error = "NotAllowedError" THEN TRUE ELSE @]
  /\ UNCHANGED <<pageVars, poseVars, uploadQueue, extraction>>

\* the start/stop button, disabled unless the model is loaded and the
\* camera is on
StartButton ==
  /\ landmarker = "ready"
  /\ camera.status = "on"
  /\ handleStartSession(camera.status)

CoachNext ==
  \/ LandmarkerLoaded
  \/ LandmarkerFailed
  \/ \E exercise \in exercises : SelectExercise(exercise)
  \/ StartButton
  \/ EnableButton
  \/ RetryButton
  \/ DisableButton
  \/ \E request \in 1..MaxRequests : GetUserMediaResolves(request)
  \/ \E request \in 1..MaxRequests, error \in GetUserMediaErrors :
       GetUserMediaRejects(request, error)

CoachSpec == Init /\ [][CoachNext]_vars

(***************************************************************************)
(* UploadQueue.  add and the turns of process between two awaits run to    *)
(* completion; what interleaves with them are further add calls and the    *)
(* events of the XMLHttpRequest of the upload awaited.                     *)
(***************************************************************************)
\* how an upload ends: a 2xx answer with a JSON body, another answer (HTTP
\* status or unparsable body), or the error event
UploadOutcomes == {"ok", "http", "network"}

\* one turn of the while loop of process up to its await, or the exit
processNext(q) ==
  IF Len(q.queue) > 0
  THEN [q EXCEPT !.queue = Tail(@),
                 !.uploads = @ \cup {[item |-> Head(q.queue), xhr |-> "sent"]},
                 !.started = Append(@, Head(q.queue))]
  ELSE [q EXCEPT !.processing = FALSE]

\* process from its call to its first await
process(q) == processNext([q EXCEPT !.processing = TRUE])

\* variant: add starts process whether or not one is running
add_AlwaysProcesses(q, item) ==
  process([q EXCEPT !.queue = Append(@, item),
                    !.promises[item] = "pending",
                    !.added = @ + 1])

\* add: the executor of the promise pushes the item and starts process
\* unless one is running
add(q, item) ==
  LET pushed == [q EXCEPT !.queue = Append(@, item),
                          !.promises[item] = "pending",
                          !.added = @ + 1]
  IN  IF ~pushed.processing THEN process(pushed) ELSE pushed

\* item.metadata.resolve or item.metadata.reject: a promise keeps its first
\* settlement
Settle(q, item) ==
  [q EXCEPT !.promises[item] =
               IF @ = "pending"
               THEN IF q.results[item] = "ok" THEN "resolved" ELSE "rejected"
               ELSE @,
            !.settles[item] = @ + 1,
            !.uploads = {u \in @ : u.item # item}]

\* variant: the catch branch leaves the loop
resume_RejectLeavesLoop(q, item) ==
  IF q.results[item] = "ok"
  THEN processNext(Settle(q, item))
  ELSE [Settle(q, item) EXCEPT !.processing = FALSE]

\* process after its await: the try or the catch branch, then the next turn
resume(q, item) == processNext(Settle(q, item))

\* a call of uploadQueue.add
AddCall ==
  /\ uploadQueue.added < MaxItems
  /\ uploadQueue' = add(uploadQueue, uploadQueue.added + 1)
  /\ UNCHANGED <<pageVars, poseVars, camera, extraction>>

\* the load or error event of the request of an upload
XhrFinishes(item, outcome) ==
  /\ [item |-> item, xhr |-> "sent"] \in uploadQueue.uploads
  /\ uploadQueue' =
       [uploadQueue EXCEPT
          !.uploads = (@ \ {[item |-> item, xhr |-> "sent"]})
                         \cup {[item |-> item, xhr |-> "done"]},
          !.results[item] = outcome]
  /\ UNCHANGED <<pageVars, poseVars, camera, extraction>>

\* the continuation of process once the upload awaited has settled
ProcessResumes(item) ==
  /\ [item |-> item, xhr |-> "done"] \in uploadQueue.uploads
  /\ uploadQueue' = resume(uploadQueue, item)
  /\ UNCHANGED <<pageVars, poseVars, camera, extraction>>

UploadFinishes == \E item \in Items, outcome \in UploadOutcomes : XhrFinishes(item, outcome)

ProcessContinues == \E item \in Items : ProcessResumes(item)

QueueNext == AddCall \/ UploadFinishes \/ ProcessContinues

QueueSpec == Init /\ [][QueueNext]_vars

\* every upload finishes, and a continuation that is ready runs
QueueFairSpec ==
  Init /\ [][QueueNext]_vars /\ WF_vars(UploadFinishes) /\ WF_vars(ProcessContinues)

(***************************************************************************)
(* extractFramesFromVideo: one call, the events of its video element and   *)
(* its safety timeout.  The frames array is the value the promise resolves *)
(* with, so it is read where the promise is resolved.                      *)
(***************************************************************************)
\* bounds on the frameCount argument and on the error events of the video
MaxFrameCount == 3
MaxErrors == 1

\* resolve and reject of the promise: the first call settles it
Resolve(e) == [e EXCEPT !.promise = IF @ = "pending" THEN "resolved" ELSE @]
Reject(e) == [e EXCEPT !.promise = IF @ = "pending" THEN "rejected" ELSE @]

\* cleanup: URL.revokeObjectURL(url), video.src = "", video.load()
cleanup(e) == [e EXCEPT !.url = "revoked"]

\* captureFrame: done when currentFrame >= frameCount, else the next seek
\* (targetTime = interval * (currentFrame + 1) lies within the duration)
captureFrame(e) ==
  IF e.currentFrame >= e.frameCount
  THEN Resolve(cleanup(e))
  ELSE [e EXCEPT !.seeking = e.currentFrame + 1]

\* variant: the safety timeout is not set
armTimeout_Skipped(e) == e

\* setTimeout(..., 10000 + frameCount * 1000)
armTimeout(e) == [e EXCEPT !.timer = "armed"]

\* the call: without a 2d context the promise is rejected at once, else the
\* object URL is created and the video starts loading
extractFramesFromVideo(frameCount, hasContext) ==
  /\ extraction.promise = "none"
  /\ extraction' =
       IF ~hasContext
       THEN [extraction EXCEPT !.promise = "rejected", !.frameCount = frameCount]
       ELSE [extraction EXCEPT !.promise = "pending",
                               !.frameCount = frameCount,
                               !.metadata = "loading",
                               !.url = "live"]
  /\ UNCHANGED <<pageVars, poseVars, camera, uploadQueue>>

\* video.onloadedmetadata
LoadedMetadata(validDuration) ==
  /\ extraction.metadata = "loading"
  /\ extraction.errors = 0
  /\ extraction' =
       IF ~validDuration
       THEN Reject(cleanup([extraction EXCEPT !.metadata = "invalid"]))
       ELSE captureFrame(armTimeout([extraction EXCEPT !.metadata = "loaded"]))
  /\ UNCHANGED <<pageVars, poseVars, camera, uploadQueue>>

\* video.onseeked; drawn is false when drawImage or toDataURL throws
Seeked(drawn) ==
  /\ extraction.seeking # 0
  /\ \E e \in {[extraction EXCEPT
                   !.frames = IF drawn THEN Append(@, extraction.seeking) ELSE @,
                   !.currentFrame = @ + 1,
                   !.seeking = 0]} :
       extraction' =
         IF e.currentFrame >= e.frameCount
         THEN Resolve(cleanup([e EXCEPT !.timer = IF @ = "armed" THEN "cleared" ELSE @]))
         ELSE captureFrame(e)
  /\ UNCHANGED <<pageVars, poseVars, camera, uploadQueue>>

\* the callback of the safety timeout
TimeoutFires ==
  /\ extraction.timer = "armed"
  /\ \E e \in {cleanup([extraction EXCEPT !.timer = "fired"])} :
       extraction' = IF Len(e.frames) > 0 THEN Resolve(e) ELSE Reject(e)
  /\ UNCHANGED <<pageVars, poseVars, camera, uploadQueue>>

\* video.onerror
VideoError ==
  /\ extraction.url # "none"
  /\ extraction.errors < MaxErrors
  /\ extraction' = Reject(cleanup([extraction EXCEPT !.errors = @ + 1]))
  /\ UNCHANGED <<pageVars, poseVars, camera, uploadQueue>>

ExtractNext ==
  \/ \E frameCount \in 0..MaxFrameCount, hasContext \in BOOLEAN :
       extractFramesFromVideo(frameCount, hasContext)
  \/ \E validDuration \in BOOLEAN : LoadedMetadata(validDuration)
  \/ \E drawn \in BOOLEAN : Seeked(drawn)
  \/ TimeoutFires
  \/ VideoError

ExtractSpec == Init /\ [][ExtractNext]_vars

\* a timeout that is set and not cleared fires
ExtractFairSpec == Init /\ [][ExtractNext]_vars /\ WF_vars(TimeoutFires)

(***************************************************************************)
(* Properties of the repetition state machine                              *)
(***************************************************************************)
\* the frame reaches detectRep: analyze passes its guards and the throttle,
\* a pose is detected and its analysis is valid
FrameProcessed(dt, in) ==
  /\ landmarker = "ready" /\ in.ready /\ selectedExercise # NoExercise
  /\ clock + dt - lastProcessedTime >= FrameInterval
  /\ in.pose.kind # "none"
  /\ analyzeExercise(selectedExercise, in.pose).isValid

FrameAnalysis(in) == analyzeExercise(selectedExercise, in.pose)

\* the smoothed primary angle s of a processed frame
FrameSmoothed(in) ==
  LET primary == getPrimaryAngle(selectedExercise, FrameAnalysis(in))
  IN  smoothMetric(metricBuffer, primary.angle, primary.confidence).result

UpLine == thresholdsOf[selectedExercise].up + thresholdsOf[selectedExercise].hysteresis
DownLine == thresholdsOf[selectedExercise].down - thresholdsOf[selectedExercise].hysteresis
DeepLine == thresholdsOf[selectedExercise].down - 2 * thresholdsOf[selectedExercise].hysteresis

\* C1: a repetition is counted on a frame if and only if the frame is
\* processed in state TRANSITIONING with s > up + hysteresis, confidence >= 0.5,
\* at least 500 ms since the previous accepted repetition and a duration
\* t - repStartTime within [0.3 s, 10 s].
C1_CountedIff ==
  [][\A in \in FrameInputs :
       \/ (repCount' = repCount + 1) <=>
            /\ repState = "TRANSITIONING"
            /\ DateNow(clock') - lastRepTime >= 500
            /\ DateNow(clock') - repStartTime >= 300
            /\ DateNow(clock') - repStartTime <= 10000
            /\ FrameProcessed(clock' - clock, in)
            /\ FrameAnalysis(in).confidence >= 50
            /\ FracGt(FrameSmoothed(in), UpLine)
       \/ ~analyze(clock' - clock, in.ready, in.pose)]_vars

\* a second repetition has just been counted, 500 ms after the first
C1_Witness ==
  /\ repCount = 2
  /\ lastRepTime = DateNow(clock)
  /\ repHistory[2].timestamp - repHistory[1].timestamp = 500

\* C2: from the initial state UP, a frame changes the rep state only along
\* UP->TRANSITIONING, TRANSITIONING->DOWN, TRANSITIONING->UP or DOWN->UP, each
\* under its table condition (never UP->DOWN nor DOWN->TRANSITIONING).
C2_TableTransitions ==
  /\ repState = "UP"
  /\ [][\A in \in FrameInputs :
          (repState' # repState /\ analyze(clock' - clock, in.ready, in.pose)) =>
            /\ FrameProcessed(clock' - clock, in)
            /\ \/ /\ repState = "UP" /\ repState' = "TRANSITIONING"
                  /\ FracLt(FrameSmoothed(in), DownLine)
               \/ /\ repState = "TRANSITIONING" /\ repState' = "DOWN"
                  /\ FracLt(FrameSmoothed(in), DeepLine)
               \/ /\ repState = "TRANSITIONING" /\ repState' = "UP"
                  /\ FracGt(FrameSmoothed(in), UpLine)
               \/ /\ repState = "DOWN" /\ repState' = "UP"
                  /\ FracGt(FrameSmoothed(in), UpLine)]_vars

\* a descent has started again after a counted repetition
C2_Witness ==
  repState = "TRANSITIONING" /\ repCount = 1 /\ repStartTime > lastRepTime

AcceptanceOutputsUnchanged ==
  /\ repCount' = repCount
  /\ repCountRef' = repCountRef
  /\ repHistory' = repHistory
  /\ qualitySum' = qualitySum
  /\ confidenceSum' = confidenceSum
  /\ lastRepTime' = lastRepTime

\* C3: when a repetition is accepted at time t, repCount grows by exactly 1,
\* one RepData record is appended whose sequence number is the new repCount,
\* whose duration is t - repStartTime and whose quality and confidence are
\* those of the triggering analysis; the sums grow by that quality and
\* confidence, lastRepTime becomes t and the state becomes UP.
C3_AcceptanceEffects ==
  [][\A in \in FrameInputs :
       (~AcceptanceOutputsUnchanged /\ analyze(clock' - clock, in.ready, in.pose)) =>
         /\ repCount' = repCount + 1
         /\ repCountRef' = repCount'
         /\ repHistory' = Append(repHistory,
                                 [count |-> repCount + 1,
                                  duration |-> DateNow(clock') - repStartTime,
                                  quality |-> FrameAnalysis(in).quality,
                                  timestamp |-> DateNow(clock'),
                                  confidence |-> FrameAnalysis(in).confidence])
         /\ qualitySum' = qualitySum + FrameAnalysis(in).quality
         /\ confidenceSum' = confidenceSum + FrameAnalysis(in).confidence
         /\ lastRepTime' = DateNow(clock')
         /\ repState' = "UP"]_vars

\* two repetitions of different quality are in the history
C3_Witness ==
  /\ Len(repHistory) = 2
  /\ repHistory[2].count = 2
  /\ repHistory[1].quality # repHistory[2].quality
  /\ qualitySum = 175

\* C4 as stated: the sequence [170,170,85,85,85,160] yields exactly one
\* accepted repetition, of the duration between the 3rd and the 6th sample.
C4_Stated ==
  (samples = SquatSamples(160) /\ Len(sampleTimes) = 6) =>
    /\ repCount = 1
    /\ Len(repHistory) = 1
    /\ repHistory[1].duration = sampleTimes[6] - sampleTimes[3]

\* C4 as amended: the sequence [170,170,85,85,85,s6] yields exactly one
\* accepted repetition, of the duration between the 3rd and the 6th sample,
\* when s6 is strictly above up + hysteresis = 160 and that duration is at
\* most 10 s; otherwise (s6 = 160, or more than 10 s) it yields none.
C4_StrictCrossing ==
  /\ Len(sampleTimes) < 6 => repCount = 0 /\ repHistory = << >>
  /\ Len(sampleTimes) = 6 =>
       IF samples[6] > 160 /\ sampleTimes[6] - sampleTimes[3] <= 10000
       THEN /\ repCount = 1
            /\ Len(repHistory) = 1
            /\ repHistory[1].duration = sampleTimes[6] - sampleTimes[3]
       ELSE repCount = 0 /\ repHistory = << >>

\* the sequence ending in 161 has been fed over exactly 10 s and counted
C4_Witness ==
  /\ Len(sampleTimes) = 6
  /\ samples[6] = 161
  /\ sampleTimes[6] - sampleTimes[3] = 10000
  /\ repCount = 1

\* C5 as stated: a TRANSITIONING->UP crossing whose duration is outside
\* [0.3 s, 10 s] counts nothing and still resets the state to UP on that
\* frame, whatever the time since the previous accepted repetition.
C5_Stated ==
  [][\A in \in FrameInputs :
       \/ repState # "TRANSITIONING"
       \/ /\ DateNow(clock') - repStartTime >= 300
          /\ DateNow(clock') - repStartTime <= 10000
       \/ ~FrameProcessed(clock' - clock, in)
       \/ ~FracGt(FrameSmoothed(in), UpLine)
       \/ ~analyze(clock' - clock, in.ready, in.pose)
       \/ (AcceptanceOutputsUnchanged /\ repState' = "UP")]_vars

\* C6 as stated: a completion within 400 ms of the previous accepted
\* repetition is dropped: it is counted neither on its frame nor on a later
\* frame, unless a new descent starts first.
C6_Stated ==
  [][(repCount' = repCount + 1) =>
       ~(repCount >= 1 /\ debouncedAt # 0 /\ debouncedAt - lastRepTime <= 400)]_vars

\* C7 as stated: a change of the selected exercise resets the rep state in
\* full, the time markers repStartTime and lastRepTime included.
C7_Stated ==
  [][selectedExercise' # selectedExercise =>
       /\ repState' = "UP"
       /\ repCount' = 0
       /\ repCountRef' = 0
       /\ repHistory' = << >>
       /\ qualitySum' = 0
       /\ confidenceSum' = 0
       /\ metricBuffer' = EmptyBuffer
       /\ repStartTime' = 0
       /\ lastRepTime' = 0]_vars

\* C8 as stated: starting the session again (isActive false -> true) resets
\* rep state, repCount, sums, history and smoothing buffer.
C8_Stated ==
  [][(~isSessionActive /\ isSessionActive') =>
       /\ repState' = "UP"
       /\ repCount' = 0
       /\ repCountRef' = 0
       /\ repHistory' = << >>
       /\ qualitySum' = 0
       /\ confidenceSum' = 0
       /\ metricBuffer' = EmptyBuffer]_vars

\* C9: a frame with s < down - 2*hysteresis in TRANSITIONING moves to DOWN
\* with no output; no frame counts a repetition from DOWN; the rise above
\* up + hysteresis moves DOWN -> UP, leaving repCount, history, sums and
\* lastRepTime as they were.
C9_DeepCycleNotCounted ==
  [][/\ repState = "DOWN" =>
          (AcceptanceOutputsUnchanged /\ repState' \in {"DOWN", "UP"})
     /\ \A in \in FrameInputs :
          \/ repState # "TRANSITIONING"
          \/ (repState' = "DOWN" /\ AcceptanceOutputsUnchanged)
          \/ ~FrameProcessed(clock' - clock, in)
          \/ ~FracLt(FrameSmoothed(in), DeepLine)
          \/ ~analyze(clock' - clock, in.ready, in.pose)
     /\ \A in \in FrameInputs :
          \/ repState # "DOWN"
          \/ repState' = "UP"
          \/ ~FrameProcessed(clock' - clock, in)
          \/ ~FracGt(FrameSmoothed(in), UpLine)
          \/ ~analyze(clock' - clock, in.ready, in.pose)]_vars

\* after a counted repetition the machine went deep and has risen above
\* up + hysteresis again
C9_Witness ==
  /\ repCount = 1
  /\ repState = "UP"
  /\ repStartTime > lastRepTime
  /\ metricBuffer.values = <<180, 180, 180, 180, 180>>
  /\ DateNow(clock) - repStartTime >= 300
  /\ DateNow(clock) - lastRepTime >= 500

\* C10: a processed frame with s < down - hysteresis in state UP moves to
\* TRANSITIONING, sets repStartTime to the frame's time and counts nothing;
\* repStartTime changes on no other step.
C10_DescentStart ==
  [][/\ \A in \in FrameInputs :
          \/ repState # "UP"
          \/ ~FrameProcessed(clock' - clock, in)
          \/ ~FracLt(FrameSmoothed(in), DownLine)
          \/ ~analyze(clock' - clock, in.ready, in.pose)
          \/ /\ repState' = "TRANSITIONING"
             /\ repStartTime' = DateNow(clock')
             /\ AcceptanceOutputsUnchanged
     /\ repStartTime' # repStartTime =>
          /\ repState = "UP"
          /\ repState' = "TRANSITIONING"
          /\ \E in \in FrameInputs :
               /\ FrameProcessed(clock' - clock, in)
               /\ FracLt(FrameSmoothed(in), DownLine)
               /\ analyze(clock' - clock, in.ready, in.pose)]_vars

\* a descent has just started in a later exercise selection
C10_Witness ==
  /\ repState = "TRANSITIONING"
  /\ repStartTime = DateNow(clock)
  /\ lastRepTime # 0
  /\ repCount = 0

\* C11: within a session repCount never decreases from one step to the next;
\* it decreases, and goes back to 0, only on a step that changes the
\* selected exercise.
C11_RepCountMonotone ==
  [][/\ (repCount' < repCount \/ (repCount # 0 /\ repCount' = 0))
          => (selectedExercise' # selectedExercise /\ repCount' = 0)
     /\ selectedExercise' = selectedExercise
          => repCount' \in {repCount, repCount + 1}]_vars

\* a repetition was counted and the exercise was changed afterwards: the
\* count is back to 0
C11_Witness ==
  /\ repCount = 0
  /\ lastRepTime # 0
  /\ ~isSessionActive
  /\ metricBuffer = EmptyBuffer

\* analysis records detectRep stops at: invalid ones, and valid ones below the
\* confidence floor
LowConfidenceAnalyses ==
  {InvalidAnalysis}
  \cup {[isValid |-> TRUE, quality |-> q, confidence |-> c,
          metrics |-> [name \in {"knee"} |-> [angle |-> a, confidence |-> 100]]] :
         q \in {60, 100}, c \in {0, 49}, a \in Angles}

\* C12: a frame whose analysis is invalid, or has confidence below 0.5,
\* changes nothing of the rep-detection state (state, repStartTime,
\* lastRepTime, repCount, sums, history, smoothing buffer).
C12_LowConfidenceNoEffect ==
  [][/\ \A a \in LowConfidenceAnalyses :
          detectRep(Refs, selectedExercise, a, DateNow(clock')) = Refs
     /\ \A in \in FrameInputs :
       \/ UNCHANGED repVars
       \/ in.pose.kind = "none"
       \/ (FrameAnalysis(in).isValid
           /\ FrameAnalysis(in).confidence >= MIN_CONFIDENCE_THRESHOLD)
       \/ ~analyze(clock' - clock, in.ready, in.pose)]_vars

\* a frame with a hidden landmark was processed after the descent started:
\* the buffer still holds the one sample of the descent
C12_Witness ==
  /\ repState = "TRANSITIONING"
  /\ Len(metricBuffer.values) = 1
  /\ DateNow(lastProcessedTime) > repStartTime
  /\ lastProcessedTime = clock

\* C17: a callback that fires less than 33 ms after the last processed frame
\* changes no analysis state and is not processed later; a callback 33 ms or
\* more after it is processed; two consecutively processed frames are at
\* least 33 ms apart.
C17_FramesDropped ==
  [][/\ clock' - lastProcessedTime < 33
          => UNCHANGED <<repVars, lastProcessedTime>>
     /\ clock' - lastProcessedTime >= 33 => lastProcessedTime' = clock'
     /\ lastProcessedTime' # lastProcessedTime
          => lastProcessedTime' - lastProcessedTime >= 33
     /\ ~UNCHANGED repVars => lastProcessedTime' = clock']_vars

\* a callback 16 ms after the first frame was dropped, the next one, exactly
\* 33 ms after it, was processed, and the one after that dropped again
C17_Witness ==
  /\ lastProcessedTime = LoopStart + 16 + 33
  /\ clock = lastProcessedTime + 16
  /\ Len(metricBuffer.values) = 2

(***************************************************************************)
(* Properties of the smoother                                              *)
(***************************************************************************)
\* the last min(n, 5) pairs given to smoothMetric since the last reset
RecentPushes ==
  IF Len(pushes) <= 5 THEN pushes ELSE SubSeq(pushes, Len(pushes) - 4, Len(pushes))

\* C14: after every call of the smoother the two sequences of the buffer have
\* the same length, at most 5, and hold the most recent min(n, 5) pushed
\* (value, confidence) pairs in arrival order; after an exercise change the
\* buffer is empty.
C14_BufferFifo ==
  /\ Len(metricBuffer.values) = Len(metricBuffer.weights)
  /\ Len(metricBuffer.values) <= 5
  /\ metricBuffer.values = [i \in 1..Len(RecentPushes) |-> RecentPushes[i][1]]
  /\ metricBuffer.weights = [i \in 1..Len(RecentPushes) |-> RecentPushes[i][2]]
  /\ pushes = << >> => metricBuffer = EmptyBuffer

\* a sixth pair, different from the first one, has evicted it
C14_Witness ==
  /\ Len(pushes) = 6
  /\ pushes[1] = <<60, 50>>
  /\ pushes[6] = <<180, 100>>
  /\ metricBuffer.values[5] = 180
  /\ metricBuffer.values[1] = pushes[2][1]

RECURSIVE Gcd(_, _)
Gcd(a, b) == IF b = 0 THEN a ELSE Gcd(b, a % b)

\* a fraction in lowest terms
Reduce(f) == <<f[1] \div Gcd(f[1], f[2]), f[2] \div Gcd(f[1], f[2])>>

RECURSIVE Pow(_, _)
Pow(b, k) == IF k = 0 THEN 1 ELSE b * Pow(b, k - 1)

\* confidence_i * 0.8^(n-1-i) of sample i (0-based) of n, times 5^(n-1)
SampleWeight(i, n) == RecentPushes[i + 1][2] * Pow(4, n - 1 - i) * Pow(5, i)

RECURSIVE WeightedValues(_, _)
WeightedValues(i, n) ==
  IF i = n THEN 0
  ELSE RecentPushes[i + 1][1] * SampleWeight(i, n) + WeightedValues(i + 1, n)

RECURSIVE Weights(_, _)
Weights(i, n) == IF i = n THEN 0 ELSE SampleWeight(i, n) + Weights(i + 1, n)

\* C15: the smoother returns the average of the buffered values weighted by
\* confidence_i * 0.8^(n-1-i), and the value just pushed when the total
\* weight is zero.
C15_WeightedAverage ==
  pushes # << >> =>
    IF Weights(0, Len(RecentPushes)) > 0
    THEN Reduce(lastSmoothed)
           = Reduce(<<WeightedValues(0, Len(RecentPushes)),
                      Weights(0, Len(RecentPushes))>>)
    ELSE lastSmoothed = <<pushes[Len(pushes)][1], 1>>

\* five samples of mixed confidence are averaged: 60 twice at 0.5, then 180
\* three times at 1.0 gives 160.93...
C15_Witness ==
  /\ pushes = <<<<60, 50>>, <<60, 50>>, <<180, 100>>, <<180, 100>>, <<180, 100>>>>
  /\ FracGt(lastSmoothed, 160)
  /\ FracLt(lastSmoothed, 161)

\* the same value and confidence c > 0 have been pushed n <= 5 times
ConstantPushes ==
  /\ pushes # << >>
  /\ Len(pushes) <= 5
  /\ \A i \in 1..Len(pushes) : pushes[i] = pushes[1]
  /\ pushes[1][2] > 0

\* C16 as stated: pushing the same value v with the same confidence c > 0
\* into an empty smoother up to five times returns v on each call.
C16_Stated ==
  ConstantPushes => SmoothedFloat(metricBuffer) = FRatio(pushes[1][1], 1)

\* C16 as amended: the call returns v in real arithmetic, and in floating
\* point a number within a relative distance 2^(4 - MantissaBits) of v (16
\* rounding units), whatever c.
C16_ConstantInputUpToRounding ==
  ConstantPushes =>
    /\ Reduce(lastSmoothed) = <<pushes[1][1], 1>>
    /\ LET f == SmoothedFloat(metricBuffer)
           v == pushes[1][1]
           \* f = m * 2^e with e < 0 here: compare m with v * 2^(-e)
           scaled == v * Pow2(-f[2])
           distance == IF f[1] > scaled THEN f[1] - scaled ELSE scaled - f[1]
       IN  /\ f[2] < 0
           /\ distance * Pow2(MantissaBits - 4) <= scaled

\* 180 at confidence 0.5 has been pushed five times
C16_Witness ==
  /\ pushes = [i \in 1..5 |-> <<180, 50>>]
  /\ metricBuffer.weights = <<50, 50, 50, 50, 50>>

(***************************************************************************)
(* Properties of the analyzers and of their dispatch                       *)
(***************************************************************************)
\* the keywords of analyzeExercise
RowKeywords == {<<"r","e","m","a","d","a">>, <<"r","o","w">>}
SquatKeywords == {<<"a","g","a","c","h","a","m","e","n","t","o">>, <<"s","q","u","a","t">>}
PushUpKeywords == {<<"f","l","e","x","ã","o">>, <<"p","u","s","h">>, <<"p","u","s","h","u","p">>}

Contains(name, keywords) == \E k \in keywords : includes(toLowerCase(name), k)

Triple(exercise) ==
  <<thresholdsOf[exercise].up, thresholdsOf[exercise].down,
    thresholdsOf[exercise].hysteresis>>

\* C13 as stated: the thresholds of the rep state machine follow the keyword
\* matching of the dispatcher: a name with a squat keyword gets (150, 100, 10),
\* one with a row keyword (150, 80, 10), one with a push-up keyword
\* (150, 90, 8), and the default entry is used only for names without any
\* dispatch keyword.
C13_Stated ==
  /\ Contains(selectedExercise, RowKeywords)
       => Triple(selectedExercise) = <<150, 80, 10>>
  /\ (~Contains(selectedExercise, RowKeywords)
      /\ Contains(selectedExercise, SquatKeywords))
       => Triple(selectedExercise) = <<150, 100, 10>>
  /\ (~Contains(selectedExercise, RowKeywords)
      /\ ~Contains(selectedExercise, SquatKeywords)
      /\ Contains(selectedExercise, PushUpKeywords))
       => Triple(selectedExercise) = <<150, 90, 8>>
  /\ thresholdsOf[selectedExercise].key = <<"d","e","f","a","u","l","t">>
       => ~Contains(selectedExercise, RowKeywords \cup SquatKeywords \cup PushUpKeywords)

Called == "isValid" \in DOMAIN lastAnalysis

\* C18: every record the dispatcher returns has quality in [0, 100] and
\* confidence in [0, 1], whatever the exercise name and the frame, also when
\* all the penalties of an analyzer apply together.
C18_QualityAndConfidenceRange ==
  Called =>
    /\ lastAnalysis.quality \in 0..100
    /\ lastAnalysis.confidence[2] > 0
    /\ lastAnalysis.confidence[1] >= 0
    /\ lastAnalysis.confidence[1] <= 100 * lastAnalysis.confidence[2]

\* a squat frame on which all five penalties applied
C18_Witness ==
  /\ Called
  /\ lastAnalysis.isValid
  /\ analyzerOf[selectedExercise] = "analyzeSquat"
  /\ Len(lastAnalysis.feedback) = 5
  /\ lastAnalysis.quality = 30
  /\ lastAnalysis.confidence[1] < 100 * lastAnalysis.confidence[2]

\* the landmarks each analyzer requires
RequiredPoints ==
  [analyzer \in {"analyzeBackRow", "analyzeSquat", "analyzePushUp"} |->
     CASE analyzer = "analyzeBackRow" -> {11, 12, 13, 15, 23, 27}
       [] analyzer = "analyzeSquat" -> {11, 23, 24, 25, 26, 27, 28}
       [] OTHER -> {11, 13, 15, 23, 25, 27}]

PositioningStrings ==
  {"Posicione-se de lado para a câmera",
   "Posicione-se de frente ou de costas para a câmera"}

\* a required landmark is absent, or has a visibility value below 0.5
RequiredLandmarkHidden ==
  \E i \in RequiredPoints[analyzerOf[selectedExercise]] :
    \/ ~lastLandmarks.points[i].present
    \/ /\ lastLandmarks.points[i].hasVisibility
       /\ lastLandmarks.points[i].visibility < 50

\* C19: if a landmark required by the selected analyzer is absent or has
\* visibility below 0.5, the record is invalid with quality 0, confidence 0,
\* no metrics and exactly one positioning string; otherwise, a landmark
\* without a visibility value included, the record is valid.
C19_MissingLandmarkInvalid ==
  (Called /\ analyzerOf[selectedExercise] # "unrecognized") =>
    IF RequiredLandmarkHidden
    THEN /\ ~lastAnalysis.isValid
         /\ lastAnalysis.quality = 0
         /\ lastAnalysis.confidence[1] = 0
         /\ DOMAIN lastAnalysis.metrics = {}
         /\ Len(lastAnalysis.feedback) = 1
         /\ lastAnalysis.feedback[1] \in PositioningStrings
    ELSE lastAnalysis.isValid

\* in a squat session a knee landmark went missing after the descent began
C19_Witness ==
  /\ Called
  /\ selectedExercise = Agachamento
  /\ ~lastLandmarks.points[25].present
  /\ ~lastAnalysis.isValid
  /\ repState = "TRANSITIONING"

\* C20: with an exercise name that has none of the dispatch keywords every
\* frame yields the invalid record (isValid false, quality 0, confidence 0,
\* one feedback string) and leaves the rep state and repCount as they were.
C20_UnrecognizedExercise ==
  [][~Contains(selectedExercise, RowKeywords \cup SquatKeywords \cup PushUpKeywords)
       => /\ lastProcessedTime' = clock'
          /\ ~lastAnalysis'.isValid
          /\ lastAnalysis'.quality = 0
          /\ lastAnalysis'.confidence[1] = 0
          /\ Len(lastAnalysis'.feedback) = 1
          /\ UNCHANGED repVars]_vars

\* a frame with every landmark visible and bent arms was analysed under the
\* name "Supino"
C20_Witness ==
  /\ Called
  /\ selectedExercise = Supino
  /\ validateLandmarks(lastLandmarks.points, LandmarkIndices)
  /\ lastLandmarks.measure = Flexed
  /\ lastAnalysis.feedback = <<"Exercício não reconhecido">>
  /\ repState = "UP"

\* the primary angle the selected analyzer classified
PrimaryAngle ==
  IF analyzerOf[selectedExercise] = "analyzeSquat"
  THEN lastLandmarks.measure.kneeAngle
  ELSE lastLandmarks.measure.elbowAngle

\* the low threshold of the selected analyzer's phase
LowThreshold == IF analyzerOf[selectedExercise] = "analyzeBackRow" THEN 90 ELSE 110

\* C21 as stated: every analyzer reports rest or eccentric above the high
\* threshold, concentric below the low one and isometric for every angle in
\* between.
C21_Stated ==
  (Called /\ lastAnalysis.isValid) =>
    IF PrimaryAngle > 150 THEN lastAnalysis.phase \in {"rest", "eccentric"}
    ELSE IF PrimaryAngle < LowThreshold THEN lastAnalysis.phase = "concentric"
    ELSE lastAnalysis.phase = "isometric"

\* C21: the phase follows from the primary angle by two thresholds.  The row
\* analyzer reports eccentric above 150, concentric below 90 and isometric
\* from 90 to 150; the squat and push-up analyzers report rest above 150,
\* concentric below 110 and eccentric, never isometric, from 110 to 150.
C21_PhaseByThresholds ==
  (Called /\ lastAnalysis.isValid) =>
    IF analyzerOf[selectedExercise] = "analyzeBackRow"
    THEN /\ PrimaryAngle > 150 => lastAnalysis.phase = "eccentric"
         /\ PrimaryAngle < 90 => lastAnalysis.phase = "concentric"
         /\ PrimaryAngle \in 90..150 => lastAnalysis.phase = "isometric"
    ELSE /\ PrimaryAngle > 150 => lastAnalysis.phase = "rest"
         /\ PrimaryAngle < 110 => lastAnalysis.phase = "concentric"
         /\ PrimaryAngle \in 110..150 => lastAnalysis.phase = "eccentric"

\* a squat frame with the knee at 130 degrees was classified eccentric
C21_Witness ==
  /\ Called
  /\ lastAnalysis.isValid
  /\ analyzerOf[selectedExercise] = "analyzeSquat"
  /\ lastLandmarks.measure.kneeAngle = 130
  /\ lastAnalysis.phase = "eccentric"

(***************************************************************************)
(* Properties of the rep history and of the exposed statistics             *)
(***************************************************************************)
RECURSIVE SumQuality(_)
SumQuality(history) ==
  IF history = << >> THEN 0 ELSE Head(history).quality + SumQuality(Tail(history))

RECURSIVE SumConfidence(_)
SumConfidence(history) ==
  IF history = << >> THEN 0
  ELSE Head(history).confidence + SumConfidence(Tail(history))

\* r is sum / count rounded to the nearest integer, halves upwards
IsRounded(r, sum, count) ==
  /\ 2 * count * r - count <= 2 * sum
  /\ 2 * sum < 2 * count * r + count

\* C22: the exposed avgQuality is the rounded mean of the quality of the
\* repetitions in the history (sum / repCount), the exposed avgConfidence
\* the mean of their confidence rounded to hundredths, and both are 0 while
\* no repetition has been accepted since the last reset.
C22_ExposedAverages ==
  IF repCount = 0
  THEN ExposedAvgQuality = 0 /\ ExposedAvgConfidence = 0
  ELSE /\ IsRounded(ExposedAvgQuality, SumQuality(repHistory), repCount)
       /\ IsRounded(ExposedAvgConfidence, SumConfidence(repHistory), repCount)

\* two repetitions of quality 100 and 75 and confidence 1 and 0.75: the
\* means 87.5 and 0.875 are exposed as 88 and 0.88
C22_Witness ==
  /\ repCount = 2
  /\ SumQuality(repHistory) = 175
  /\ SumConfidence(repHistory) = 175
  /\ ExposedAvgQuality = 88
  /\ ExposedAvgConfidence = 88

\* C23: lastRepDuration changes only on a frame on which a repetition is
\* accepted, and is then the duration of that repetition (the time since
\* the descent began); frames that are rejected by the confidence floor, the
\* debounce or the duration band, and the page's actions, leave it alone.
C23_LastRepDuration ==
  [][IF Len(repHistory') = Len(repHistory) + 1
     THEN /\ lastRepDuration' = repHistory'[Len(repHistory')].duration
          /\ lastRepDuration' = DateNow(clock') - repStartTime
     ELSE lastRepDuration' = lastRepDuration]_vars

\* after an accepted repetition the next completion came too early and was
\* debounced: the duration shown is still that of the accepted repetition
C23_Witness ==
  /\ repCount = 1
  /\ debouncedAt # 0
  /\ repState = "TRANSITIONING"
  /\ repStartTime > repHistory[1].timestamp
  /\ lastRepDuration = repHistory[1].duration

\* C24: once the session is inactive no frame callback is scheduled, and
\* while it is inactive no frame is processed: the clock of the last
\* processed frame does not move, and the rep state, repCount, the history
\* and the smoothing buffer are not changed by any frame (they change only
\* if the user selects another exercise, which resets them).
C24_InactiveNoFrames ==
  [][/\ ~isSessionActive' => ~requestRef'
     /\ ~isSessionActive =>
          /\ lastProcessedTime' = lastProcessedTime
          /\ selectedExercise' = selectedExercise
               => UNCHANGED <<repState, repCount, repHistory, metricBuffer>>]_vars

\* the session was stopped in the middle of the second repetition
C24_Witness ==
  /\ ~isSessionActive
  /\ ~requestRef
  /\ selectedExercise = Agachamento
  /\ repCount = 1
  /\ repState = "TRANSITIONING"
  /\ metricBuffer # EmptyBuffer

\* C25: the state machine cannot stay in TRANSITIONING or DOWN forever: once
\* the frames show the joint extended and keep being processed as time
\* advances, the smoothed angle rises above up + hysteresis, the debounce
\* window runs out, and the state becomes UP.
C25_EventuallyUp == standing ~> repState = "UP"

\* the person stood up during the descent of the second repetition, less
\* than 500 ms after the first was counted; the completions were debounced
\* until the window ran out, and then the repetition was counted
C25_Witness ==
  /\ standing
  /\ repState = "UP"
  /\ repCount = 2
  /\ repHistory[2].timestamp = repHistory[1].timestamp + DebounceMs
  /\ repHistory[2].timestamp = DateNow(clock)

\* the penalty the source attaches to each feedback message of a violated
\* rule; the other messages are praise or hints and cost nothing
FixedPenalty(message) ==
  CASE message = "Incline o tronco para frente (~45°)" -> 15
    [] message = "Não incline demais - proteja a lombar" -> 20
    [] message = "Mantenha os ombros alinhados - sem rotação" -> 15
    [] message = "Puxada muito curta - estenda mais o braço" -> 10
    [] message = "Mantenha o cotovelo próximo ao corpo" -> 10
    [] message = "Desça um pouco mais para profundidade ideal" -> 10
    [] message = "Mantenha o peito erguido - costas muito inclinadas" -> 15
    [] message = "Não incline para trás demais" -> 10
    [] message = "Joelho ultrapassando a ponta do pé" -> 15
    [] message = "Mantenha o quadril centralizado" -> 10
    [] message = "Desça mais para aproveitar o movimento completo" -> 15
    [] message = "Quadril muito alto - mantenha o corpo reto" -> 20
    [] message = "Quadril caído - ative o core" -> 20
    [] message = "Cotovelos muito abertos - aproxime do corpo" -> 10
    [] OTHER -> 0

AsymmetryMessage == "Distribua o peso uniformemente entre as pernas"

RECURSIVE SumFixedPenalties(_)
SumFixedPenalties(feedback) ==
  IF feedback = << >> THEN 0
  ELSE FixedPenalty(Head(feedback)) + SumFixedPenalties(Tail(feedback))

\* the rules of the frame that cost points
ViolatedRules ==
  {i \in DOMAIN lastAnalysis.feedback :
     \/ FixedPenalty(lastAnalysis.feedback[i]) > 0
     \/ lastAnalysis.feedback[i] = AsymmetryMessage}

\* the difference of the knee angles of the two legs
LegAsymmetry ==
  Abs(lastLandmarks.measure.kneeAngle - lastLandmarks.measure.kneeAngleR)

\* C26 as stated: every violated rule costs between 10 and 20 points, so
\* the points lost by a frame lie between 10 and 20 times the number of its
\* violated rules.
C26_Stated ==
  (Called /\ lastAnalysis.isValid) =>
    /\ 100 - lastAnalysis.quality >= 10 * Cardinality(ViolatedRules)
    /\ 100 - lastAnalysis.quality <= 20 * Cardinality(ViolatedRules)

\* C26: quality is 100 minus the sum of the penalties of the violated rules.
\* Each rule has a fixed penalty of 10, 15 or 20 points, except the squat's
\* leg-symmetry rule, which costs half the difference of the knee angles,
\* rounded, and at most 20 (so 8 to 20 points).  The penalties of one frame
\* sum to at most 70, so the clamp at 0 never takes effect.
C26_QualityByPenalties ==
  (Called /\ lastAnalysis.isValid) =>
    \E asymmetryPenalty \in 0..20 :
      /\ IF \E i \in DOMAIN lastAnalysis.feedback :
              lastAnalysis.feedback[i] = AsymmetryMessage
         THEN /\ LegAsymmetry > 15
              /\ \/ asymmetryPenalty = 20 /\ LegAsymmetry >= 39
                 \/ /\ asymmetryPenalty \in 8..19
                    /\ IsRounded(asymmetryPenalty, LegAsymmetry, 2)
         ELSE asymmetryPenalty = 0
      /\ SumFixedPenalties(lastAnalysis.feedback) + asymmetryPenalty <= 70
      /\ lastAnalysis.quality =
           100 - SumFixedPenalties(lastAnalysis.feedback) - asymmetryPenalty

\* a squat frame whose legs differ by 17 degrees: the symmetry rule costs 9
\* points and the depth rule 10
C26_Witness ==
  /\ Called
  /\ lastAnalysis.isValid
  /\ analyzerOf[selectedExercise] = "analyzeSquat"
  /\ LegAsymmetry = 17
  /\ Cardinality(ViolatedRules) = 2
  /\ lastAnalysis.quality = 81

(***************************************************************************)
(* Properties of the geometry helpers                                      *)
(***************************************************************************)
\* the landmarks of the call that exist, and how many of them have the
\* visibility v (a missing visibility is 1)
PresentIndices == {i \in helperCall.indices : helperCall.points[i].present}

CountVisibility(v) ==
  Cardinality({i \in PresentIndices :
                 IF helperCall.points[i].hasVisibility
                 THEN helperCall.points[i].visibility = v
                 ELSE v = 100})

\* the visibilities of the three points of the call (a missing one is 1)
CallVisibilities ==
  {IF pt.hasVisibility THEN pt.visibility ELSE 100 :
     pt \in {helperCall.a, helperCall.b, helperCall.c}}

\* C27: getAverageConfidence returns the mean visibility of the landmarks
\* present at the given indices, a missing visibility counting as 1: 1 when
\* all visibilities are 1, and 0 when no index has a landmark.
\* calculateWeightedAngle returns the minimum of the three visibilities.
C27_AverageAndMinimum ==
  /\ ("fn" \in DOMAIN helperCall /\ helperCall.fn = "getAverageConfidence") =>
       /\ PresentIndices = {} => FracEq(helperResult.value, <<0, 1>>)
       /\ PresentIndices # {} =>
            FracEq(helperResult.value,
                   <<50 * CountVisibility(50) + 100 * CountVisibility(100),
                     Cardinality(PresentIndices)>>)
       /\ (PresentIndices # {} /\ CountVisibility(100) = Cardinality(PresentIndices))
            => FracEq(helperResult.value, <<100, 1>>)
  /\ ("fn" \in DOMAIN helperCall /\ helperCall.fn = "calculateWeightedAngle") =>
       /\ helperResult.confidence \in CallVisibilities
       /\ \A v \in CallVisibilities : helperResult.confidence <= v

\* the mean over a landmark of visibility 0.5, one without a visibility
\* value and an index without a landmark is 0.75
C27_Witness ==
  /\ "fn" \in DOMAIN helperCall
  /\ helperCall.fn = "getAverageConfidence"
  /\ helperCall.indices = HelperIndices
  /\ helperCall.points[11] = Point(50)
  /\ helperCall.points[13] = NoVisibility
  /\ helperCall.points[15] = Absent
  /\ helperResult.value = <<150, 2>>

\* the positions of the call as points of space, a missing z being 0
Coincide(p1, p2) ==
  /\ p1.x = p2.x
  /\ p1.y = p2.y
  /\ (IF p1.hasZ THEN p1.z ELSE 0) = (IF p2.hasZ THEN p2.z ELSE 0)

\* C28: calculateAngle returns 0 whenever the vertex b coincides with a or
\* with c (a missing z is 0), and pointToLineDistance(p, a, b) returns the
\* distance from p to a whenever a and b coincide.
C28_DegenerateGeometry ==
  /\ ("fn" \in DOMAIN helperCall /\ helperCall.fn = "calculateAngle"
      /\ (Coincide(helperCall.b, helperCall.a) \/ Coincide(helperCall.b, helperCall.c)))
       => helperResult = ZeroDegrees
  /\ ("fn" \in DOMAIN helperCall /\ helperCall.fn = "pointToLineDistance"
      /\ Coincide(helperCall.a, helperCall.b))
       => FracEq(helperResult.value, calculateDistance(helperCall.p, helperCall.a))

\* the vertex has no z and lies at a, which has z = 0: the angle is 0
C28_Witness ==
  /\ "fn" \in DOMAIN helperCall
  /\ helperCall.fn = "calculateAngle"
  /\ helperCall.a = [x |-> 1, y |-> 0, hasZ |-> TRUE, z |-> 0]
  /\ helperCall.b = [x |-> 1, y |-> 0, hasZ |-> FALSE, z |-> 0]
  /\ helperCall.c = [x |-> 0, y |-> 1, hasZ |-> TRUE, z |-> 1]
  /\ helperResult = ZeroDegrees

\* C29: repCount is the length of the rep history, the i-th record of the
\* history carries the sequence number i, and as long as the exercise is
\* not changed the history only grows, by one record appended at its end.
C29_HistoryNumbering ==
  [][/\ repCount' = Len(repHistory')
     /\ \A i \in DOMAIN repHistory' : repHistory'[i].count = i
     /\ selectedExercise' = selectedExercise =>
          \/ repHistory' = repHistory
          \/ /\ Len(repHistory') = Len(repHistory) + 1
             /\ SubSeq(repHistory', 1, Len(repHistory)) = repHistory]_vars

\* the exercise was changed in the course of the workout, and the first
\* push-up counted after the reset is number 1 of a history of length 1
C29_Witness ==
  /\ selectedExercise = Flexao
  /\ repCount = 1
  /\ Len(repHistory) = 1
  /\ repHistory[1].count = 1
  /\ repHistory[1].timestamp = lastRepTime
  /\ repHistory[1].timestamp - repHistory[1].duration > DateNow(StartClock) + MinDurationMs

\* C30: every record of the rep history has a duration between 0.3 and 10
\* seconds, both included, and any two consecutive records are at least
\* 500 ms apart.
C30_HistoryBounds ==
  /\ \A i \in DOMAIN repHistory :
       /\ repHistory[i].duration >= MinDurationMs
       /\ repHistory[i].duration <= MaxDurationMs
  /\ \A i \in DOMAIN repHistory :
       i > 1 => repHistory[i].timestamp - repHistory[i - 1].timestamp >= DebounceMs

\* both limits met: a repetition of exactly 0.3 s, and the next one counted
\* exactly 500 ms after it
C30_Witness ==
  /\ Len(repHistory) = 2
  /\ repHistory[1].duration = MinDurationMs
  /\ repHistory[2].timestamp - repHistory[1].timestamp = DebounceMs

\* C31: at most one repetition is counted per descent.  A repetition is
\* counted only on a step that leaves TRANSITIONING for UP, its descent began
\* after the previous counted repetition, and TRANSITIONING is entered (and
\* repStartTime written) only from UP by a processed frame whose smoothed angle
\* is below down - hysteresis; so a signal that never goes below that line
\* keeps the state UP and counts nothing.
C31_OneRepPerDescent ==
  [][/\ repCount' > repCount =>
          /\ repState = "TRANSITIONING" /\ repState' = "UP"
          /\ repStartTime > lastRepTime
          /\ lastRepTime' > repStartTime
     /\ repStartTime' # repStartTime =>
          repState = "UP" /\ repState' = "TRANSITIONING"
     /\ (repState' = "TRANSITIONING" /\ repState # "TRANSITIONING") =>
          /\ repState = "UP"
          /\ repStartTime' = DateNow(clock')
          /\ \E in \in FrameInputs :
               /\ FrameProcessed(clock' - clock, in)
               /\ FracLt(FrameSmoothed(in), DownLine)
               /\ analyze(clock' - clock, in.ready, in.pose)]_vars

\* the second repetition has been counted, and its descent began after the
\* first one was counted
C31_Witness ==
  /\ repCount = 2
  /\ Len(repHistory) = 2
  /\ repState = "UP"
  /\ repHistory[2].timestamp - repHistory[2].duration > repHistory[1].timestamp

\* C32: in every reachable state of the coach page an active session has an
\* exercise selected and the camera on (as stated).
C32_Stated ==
  isSessionActive => selectedExercise # NoExercise /\ camera.status = "on"

\* C32, the part that holds: no step changes the selected exercise while the
\* session is active, and a session starts only with an exercise selected and
\* the camera on.
C32_ExerciseFixedWhileActive ==
  [][/\ isSessionActive => selectedExercise' = selectedExercise
     /\ (~isSessionActive /\ isSessionActive') =>
          selectedExercise # NoExercise /\ camera.status = "on"]_vars

\* C35: after disableCamera, with no enableCamera call started since, the
\* camera is off: status "off", stream null, userDetected false (as stated).
C35_Stated ==
  camera.afterDisable =>
    camera.status = "off" /\ camera.stream = 0 /\ ~camera.userDetected

\* C33: under every interleaving of add calls with the ends of the uploads,
\* at most one upload runs at a time, and the uploads start in the order the
\* items were added.
C33_OneUploadInOrder ==
  /\ Cardinality(uploadQueue.uploads) <= 1
  /\ \A i \in DOMAIN uploadQueue.started : uploadQueue.started[i] = i
  /\ \A i \in DOMAIN uploadQueue.queue :
       uploadQueue.queue[i] = Len(uploadQueue.started) + i

\* the second item is being uploaded while the third, added meanwhile, waits
C33_Witness ==
  /\ uploadQueue.started = <<1, 2>>
  /\ uploadQueue.queue = <<3>>
  /\ uploadQueue.uploads = {[item |-> 2, xhr |-> "sent"]}

\* C34: provided every upload finishes, every item added is eventually
\* settled, exactly once and with the outcome of its own upload: resolved when
\* that upload succeeded, rejected when it failed; a rejection does not stop
\* later items, and no item waits in the queue while processing is false.
C34_EverySettledOnce ==
  /\ [](\A i \in Items :
         /\ uploadQueue.settles[i] <= 1
         /\ uploadQueue.promises[i] = "resolved" => uploadQueue.results[i] = "ok"
         /\ uploadQueue.promises[i] = "rejected" =>
              uploadQueue.results[i] \in {"http", "network"}
         /\ uploadQueue.promises[i] \in {"resolved", "rejected"} =>
              uploadQueue.settles[i] = 1)
  /\ [](~uploadQueue.processing =>
         uploadQueue.queue = << >> /\ uploadQueue.uploads = {})
  /\ \A i \in Items :
       (uploadQueue.promises[i] = "pending")
         ~> (uploadQueue.promises[i] \in {"resolved", "rejected"})

\* the upload of the first item failed and its promise was rejected, the
\* second item, which waited behind it, was uploaded and resolved
C34_Witness ==
  /\ uploadQueue.promises[1] = "rejected"
  /\ uploadQueue.results[1] = "network"
  /\ uploadQueue.promises[2] = "resolved"
  /\ uploadQueue.started = <<1, 2>>
  /\ ~uploadQueue.processing

\* C36: once the metadata has loaded, the promise of extractFramesFromVideo
\* is eventually settled, also when a seek never completes; a resolved promise
\* holds at most frameCount frames in increasing time order; the timeout
\* resolves with the frames captured so far and rejects when there are none;
\* a settled promise stays as it is, and whenever the promise is settled the
\* object URL that was created has been revoked.
C36_ExtractionTerminates ==
  /\ (extraction.metadata \in {"loaded", "invalid"})
       ~> (extraction.promise \in {"resolved", "rejected"})
  /\ [](extraction.promise = "resolved" =>
         /\ Len(extraction.frames) <= extraction.frameCount
         /\ \A i \in DOMAIN extraction.frames :
              i > 1 => extraction.frames[i - 1] < extraction.frames[i])
  /\ [](extraction.promise \in {"resolved", "rejected"} =>
         extraction.url \in {"none", "revoked"})
  /\ [][/\ extraction.promise \in {"resolved", "rejected"} =>
            extraction.promise' = extraction.promise
        /\ (extraction.timer = "armed" /\ extraction'.timer = "fired"
            /\ extraction.promise = "pending") =>
             extraction'.promise =
               IF Len(extraction.frames) > 0 THEN "resolved" ELSE "rejected"]_vars

\* the second seek never completed: the timeout has resolved the promise with
\* the one frame captured, of three asked for, and the URL is revoked
C36_Witness ==
  /\ extraction.promise = "resolved"
  /\ extraction.timer = "fired"
  /\ extraction.frameCount = 3
  /\ extraction.frames = <<1>>
  /\ extraction.seeking = 2
  /\ extraction.url = "revoked"

\* C37: every analysis record with isValid = true has confidence >= 0.5:
\* each required landmark passed the 0.5 visibility check and the confidence
\* is their mean, so the minimum-confidence check of the state machine does
\* not reject a frame that got past its isValid check.
C37_ValidIsConfident ==
  (Called /\ lastAnalysis.isValid) =>
    /\ ~RequiredLandmarkHidden
    /\ lastAnalysis.confidence[1] >= 50 * lastAnalysis.confidence[2]
    /\ ~(AsAnalysis(lastAnalysis).confidence < MIN_CONFIDENCE_THRESHOLD)

\* a squat frame whose landmarks all have visibility 0.5 exactly is valid,
\* has confidence 0.5 and has moved the state machine
C37_Witness ==
  /\ Called
  /\ lastAnalysis.isValid
  /\ lastLandmarks.points \in UniformPoints
  /\ FracEq(lastAnalysis.confidence, <<50, 1>>)
  /\ selectedExercise = Agachamento
  /\ repState = "TRANSITIONING"
  /\ repStartTime = DateNow(clock)

====
